---- MODULE Spec2Model ----
(***************************************************************************)
(* Diff navigation and annotation engine of gh-pr-lander: the file tree    *)
(* (gh-diff-viewer/src/model/file_tree.rs), the hunk/line flattening       *)
(* (gh-diff-viewer/src/widget/diff_content.rs), the values the widgets     *)
(* consume (gh-diff-viewer/src/widget/diff_viewer.rs) and the reducer that *)
(* forwards actions to the viewer state                                    *)
(* (gh-pr-lander/src/reducers/diff_viewer_reducer.rs).                     *)
(*                                                                         *)
(* Text is a sequence of one-character strings, so that splitting a path,  *)
(* comparing names and comparing a name with a path are computed and not   *)
(* assumed.  Option<T> is a sequence of length 0 (None) or 1 (Some).       *)
(***************************************************************************)
EXTENDS Integers, Sequences, FiniteSets, TLC

VARIABLES
    files,              \* PullRequestDiff.files of the loaded diff
    file_tree,          \* DiffViewerState.file_tree (root FileTreeNode)
    inner,              \* lander DiffViewerState.inner is Some
    load_state,         \* lander DiffViewerState: "idle" | "loading" | "loaded" | "error"
    file_tree_focused,  \* nav.file_tree_focused
    cursor_line,        \* nav.cursor_line
    selected_file,      \* nav.selected_file
    scroll_offset,      \* nav.scroll_offset
    viewport_height,    \* inner.viewport_height
    visual_anchor,      \* anchor of the visual selection (Option)
    current_file,       \* path of the file shown in the content pane (Option)
    comment_editor,     \* inner.comment_editor: the open draft (Option)
    pending_comments,   \* inner.pending_comments, in the order committed
    show_review_popup,  \* inner.show_review_popup
    selected_review_event,  \* inner.selected_review_event
    queue,              \* Dispatcher.queue: the actions waiting, oldest first
    in_flight,          \* the action store.dispatch is working on (Option)
    running,            \* AppState.running
    pc,                 \* where run_app is
    view_stack,         \* AppState.view_stack, bottom first
    repositories,       \* AppState.main_view.repositories
    add_repo_form,      \* AppState.add_repo_form: the repository typed in (Option)
    octocrab,           \* the middleware's GitHub client (octocrab, client) is Some
    tick_thread_started,  \* BootstrapMiddleware.tick_thread_started
    tick_threads,       \* the tick threads spawned so far: where each is
    tasks,              \* the tasks GitHubMiddleware spawned: what each is doing
    last                \* history: the last action applied and what it started from

vars == <<files, file_tree, inner, load_state, file_tree_focused, cursor_line,
          selected_file, scroll_offset, viewport_height, visual_anchor,
          current_file, comment_editor, pending_comments, show_review_popup,
          selected_review_event, queue, in_flight, running, pc, view_stack,
          repositories, add_repo_form, octocrab, tick_thread_started, tick_threads,
          tasks, last>>

----------------------------------------------------------------------------
(* Bounds *)
MaxComments == 2
MaxBody == 1
MaxPending == 2
MaxActions == 4

\* views on the stack
MaxStack == 3

\* repositories named in a run
MaxRepos == 3

\* tick threads spawned in a run
MaxThreads == 3

\* Tick actions waiting on the queue
MaxTicks == 2

\* tasks spawned in a run
MaxTasks == 2

\* longest file list of a diff in the tree specification
MaxFiles == 3

\* how many of the diffs of DiffPool a load may deliver
MaxDiffs == 3

\* largest viewport height SetViewport reports
MaxHeight == 2

----------------------------------------------------------------------------
(* Option and text *)

None == <<>>
Some(x) == <<x>>
IsSome(o) == Len(o) = 1
Unwrap(o) == o[1]

Min(a, b) == IF a < b THEN a ELSE b
Max(a, b) == IF a < b THEN b ELSE a

\* byte value of a character (str::cmp compares bytes)
CharOrd(c) ==
    CASE c = "." -> 46
      [] c = "/" -> 47
      [] c = "C" -> 67
      [] c = "a" -> 97
      [] c = "b" -> 98
      [] c = "c" -> 99
      [] c = "e" -> 101
      [] c = "f" -> 102
      [] c = "g" -> 103
      [] c = "i" -> 105
      [] c = "l" -> 108
      [] c = "m" -> 109
      [] c = "n" -> 110
      [] c = "o" -> 111
      [] c = "r" -> 114
      [] c = "s" -> 115
      [] c = "t" -> 116
      [] c = "x" -> 120

RECURSIVE StrLess(_, _)
\* a < b in str::cmp (lexicographic on bytes, a proper prefix is smaller)
StrLess(a, b) ==
    IF b = <<>> THEN FALSE
    ELSE IF a = <<>> THEN TRUE
    ELSE IF CharOrd(Head(a)) # CharOrd(Head(b)) THEN CharOrd(Head(a)) < CharOrd(Head(b))
    ELSE StrLess(Tail(a), Tail(b))

RECURSIVE SplitFrom(_, _, _)
\* str::split('/') scanning s from position i with the segment cur open
SplitFrom(s, i, cur) ==
    IF i > Len(s) THEN <<cur>>
    ELSE IF s[i] = "/" THEN <<cur>> \o SplitFrom(s, i + 1, <<>>)
    ELSE SplitFrom(s, i + 1, Append(cur, s[i]))

\* file.path.split('/').collect(): empty segments are kept
Split(s) == SplitFrom(s, 1, <<>>)

----------------------------------------------------------------------------
(* FileTreeNode *)

\* FileTreeNode::directory
directory(name) ==
    [name |-> name, path |-> None, children |-> <<>>, expanded |-> TRUE,
     status |-> None, additions |-> 0, deletions |-> 0]

\* FileTreeNode::file
file(name, path, file_diff) ==
    [name |-> name, path |-> Some(path), children |-> <<>>, expanded |-> FALSE,
     status |-> Some(file_diff.status), additions |-> file_diff.additions,
     deletions |-> file_diff.deletions]

\* FileTreeNode::is_directory
is_directory(node) == node.path = None

\* a variant of FindDir that takes the first child named dir_name, file or not
FindByName(children, dir_name) ==
    LET hits == {i \in 1..Len(children) : children[i].name = dir_name}
    IN IF hits = {} THEN 0 ELSE CHOOSE i \in hits : \A j \in hits : i <= j

\* position of the first child that is a directory named dir_name, 0 if none
FindDir(children, dir_name) ==
    LET hits == {i \in 1..Len(children) :
                    children[i].name = dir_name /\ children[i].path = None}
    IN IF hits = {} THEN 0 ELSE CHOOSE i \in hits : \A j \in hits : i <= j

RECURSIVE insert_path(_, _, _)
\* FileTreeNode::insert_path
insert_path(node, parts, file_diff) ==
    IF parts = <<>> THEN node
    ELSE IF Len(parts) = 1
    THEN [node EXCEPT !.children =
            Append(@, file(parts[1], file_diff.path, file_diff))]
    ELSE LET i == FindDir(node.children, parts[1])
         IN IF i # 0
            THEN [node EXCEPT !.children[i] = insert_path(@, Tail(parts), file_diff)]
            ELSE [node EXCEPT !.children =
                    Append(@, insert_path(directory(parts[1]), Tail(parts), file_diff))]

\* a variant of SortsBefore that answers Less for every pair
SortsBeforeAlways(a, b) ==
    TRUE

\* a variant of SortsBefore that orders by name alone, directories not first
SortsByNameOnly(a, b) ==
    StrLess(a.name, b.name)

\* the comparator of sort_recursive: a sorts strictly before b
SortsBefore(a, b) ==
    LET a_is_dir == a.path = None
        b_is_dir == b.path = None
    IN IF a_is_dir /\ ~b_is_dir THEN TRUE
       ELSE IF ~a_is_dir /\ b_is_dir THEN FALSE
       ELSE StrLess(a.name, b.name)

RECURSIVE InsertSorted(_, _)
\* x put into the sorted sequence s after every element it does not sort before
InsertSorted(s, x) ==
    IF s = <<>> THEN <<x>>
    ELSE IF SortsBefore(x, Head(s)) THEN <<x>> \o s
    ELSE <<Head(s)>> \o InsertSorted(Tail(s), x)

RECURSIVE StableSort(_)
\* slice::sort_by, a stable sort
StableSort(s) ==
    IF s = <<>> THEN <<>>
    ELSE InsertSorted(StableSort(SubSeq(s, 1, Len(s) - 1)), s[Len(s)])

RECURSIVE sort_recursive(_)
\* FileTreeNode::sort_recursive
sort_recursive(node) ==
    LET sorted == StableSort(node.children)
    IN [node EXCEPT !.children =
            [i \in 1..Len(sorted) |-> sort_recursive(sorted[i])]]

RECURSIVE InsertAll(_, _, _)
\* the loop of from_files over files[i..]
InsertAll(root, fs, i) ==
    IF i > Len(fs) THEN root
    ELSE InsertAll(insert_path(root, Split(fs[i].path), fs[i]), fs, i + 1)

\* FileTreeNode::from_files
from_files(fs) == sort_recursive(InsertAll(directory(<<>>), fs, 1))

\* FileTreeNode::toggle
toggle(node) ==
    IF is_directory(node) THEN [node EXCEPT !.expanded = ~@] ELSE node

\* a variant of flatten_recursive that walks into collapsed directories too
RECURSIVE flatten_ignoring_expanded(_, _)
flatten_ignoring_expanded(node, depth) ==
    LET own == IF node.name # <<>>
               THEN <<[depth |-> depth, name |-> node.name, path |-> node.path,
                       is_dir |-> is_directory(node), is_expanded |-> node.expanded,
                       status |-> node.status, additions |-> node.additions,
                       deletions |-> node.deletions]>>
               ELSE <<>>
        child_depth == IF node.name = <<>> THEN 0 ELSE depth + 1
        RECURSIVE kids(_)
        kids(i) == IF i > Len(node.children) THEN <<>>
                   ELSE flatten_ignoring_expanded(node.children[i], child_depth) \o kids(i + 1)
    IN own \o kids(1)

RECURSIVE flatten_recursive(_, _)
\* FileTreeNode::flatten_recursive: the rows pushed for node at depth
flatten_recursive(node, depth) ==
    LET own == IF node.name # <<>>
               THEN <<[depth |-> depth, name |-> node.name, path |-> node.path,
                       is_dir |-> is_directory(node), is_expanded |-> node.expanded,
                       status |-> node.status, additions |-> node.additions,
                       deletions |-> node.deletions]>>
               ELSE <<>>
        child_depth == IF node.name = <<>> THEN 0 ELSE depth + 1
        RECURSIVE kids(_)
        kids(i) == IF i > Len(node.children) THEN <<>>
                   ELSE flatten_recursive(node.children[i], child_depth) \o kids(i + 1)
    IN IF node.expanded \/ node.name = <<>> THEN own \o kids(1) ELSE own

\* FileTreeNode::flatten
flatten(node) == flatten_recursive(node, 0)

\* FileTreeNode::file_paths: the paths of the rows that have one, in display order
file_paths(node) ==
    LET with_path == SelectSeq(flatten(node), LAMBDA e : e.path # None)
    IN [i \in 1..Len(with_path) |-> Unwrap(with_path[i].path)]

RECURSIVE toggle_at_path(_, _)
\* FileTreeNode::toggle_at_path: [node |-> the node afterwards, ok |-> the result]
toggle_at_path(node, target_path) ==
    LET RECURSIVE loop(_, _)
        \* the for loop from child i on, n being the node so far
        loop(n, i) ==
            IF i > Len(n.children) THEN [node |-> n, ok |-> FALSE]
            ELSE LET child == n.children[i]
                 IN IF is_directory(child) /\ child.name = target_path
                    THEN [node |-> [n EXCEPT !.children[i] = toggle(child)], ok |-> TRUE]
                    ELSE LET r == toggle_at_path(child, target_path)
                         IN IF r.ok
                            THEN [node |-> [n EXCEPT !.children[i] = r.node], ok |-> TRUE]
                            ELSE loop(n, i + 1)
    IN IF node.path = Some(target_path)
       THEN [node |-> node, ok |-> FALSE]
       ELSE loop(node, 1)

\* a variant of calculate_stats that adds up the counts the children had before,
\* without descending into them
calculate_stats_shallow(node) ==
    IF ~is_directory(node)
    THEN [node |-> node, add |-> node.additions, del |-> node.deletions]
    ELSE LET RECURSIVE total(_, _)
             total(i, field) ==
                IF i > Len(node.children) THEN 0
                ELSE (IF field = "add" THEN node.children[i].additions
                      ELSE node.children[i].deletions) + total(i + 1, field)
         IN [node |-> [node EXCEPT !.additions = total(1, "add"),
                                   !.deletions = total(1, "del")],
             add |-> total(1, "add"), del |-> total(1, "del")]

RECURSIVE calculate_stats(_)
\* FileTreeNode::calculate_stats: the node with its directories' counts set, and the
\* pair it returns
calculate_stats(node) ==
    IF ~is_directory(node)
    THEN [node |-> node, add |-> node.additions, del |-> node.deletions]
    ELSE LET done == [i \in 1..Len(node.children) |-> calculate_stats(node.children[i])]
             RECURSIVE total(_, _)
             total(i, field) ==
                IF i > Len(done) THEN 0
                ELSE (IF field = "add" THEN done[i].add ELSE done[i].del)
                     + total(i + 1, field)
         IN [node |-> [node EXCEPT !.children = [i \in 1..Len(done) |-> done[i].node],
                                   !.additions = total(1, "add"),
                                   !.deletions = total(1, "del")],
             add |-> total(1, "add"), del |-> total(1, "del")]

----------------------------------------------------------------------------
(* The diff model: FileDiff, Hunk, DiffLine as the widgets read them *)

\* DiffLine::context / addition / deletion / expansion marker
DiffLine(kind, old_line, new_line) ==
    [kind |-> kind, old_line |-> old_line, new_line |-> new_line, is_expanded |-> FALSE]

\* Hunk with its lines in stored order
Hunk(lines) == [lines |-> lines]

\* the hunk of the widget tests: context(1,1), addition(2), context(2,3)
SampleHunk ==
    Hunk(<<DiffLine("Context", Some(1), Some(1)),
           DiffLine("Addition", None, Some(2)),
           DiffLine("Context", Some(2), Some(3))>>)

\* a hunk with a deleted line and an expansion marker
OtherHunk ==
    Hunk(<<DiffLine("Deletion", Some(7), None),
           DiffLine("Expansion", None, None)>>)

\* a hunk of one added line
TinyHunk == Hunk(<<DiffLine("Addition", None, Some(1))>>)

\* FileDiff
FileDiff(path, status, additions, deletions, hunks) ==
    [path |-> path, status |-> status, additions |-> additions,
     deletions |-> deletions, hunks |-> hunks]

\* the files diffs are made of: same-named directories at different depths (a/x, x,
\* x/x), a file named like a directory (x), empty path segments (/a, a/)
FilePool ==
    <<FileDiff(<<"a", "/", "x", "/", "f">>, "Modified", 1, 0, <<SampleHunk>>),
      FileDiff(<<"x", "/", "g">>, "Added", 2, 0, <<TinyHunk, TinyHunk>>),
      FileDiff(<<"x">>, "Deleted", 0, 1, <<>>),
      FileDiff(<<"a", "/", "f">>, "Modified", 0, 1, <<OtherHunk>>),
      FileDiff(<<"x", "/", "x", "/", "f">>, "Modified", 1, 0, <<SampleHunk>>),
      FileDiff(<<"f">>, "Modified", 3, 1, <<OtherHunk>>),
      FileDiff(<<"/", "a">>, "Added", 2, 0, <<OtherHunk>>),
      FileDiff(<<"a", "/">>, "Added", 2, 2, <<SampleHunk>>)>>

\* file lists of at most n files with distinct paths, in every order
FileLists(n) ==
    UNION {{[i \in 1..k |-> FilePool[f[i]]] :
              f \in {g \in [1..k -> 1..Len(FilePool)] :
                        \A i, j \in 1..k : i # j => g[i] # g[j]}} : k \in 0..n}

----------------------------------------------------------------------------
(* The content pane's rows *)

RECURSIVE KeepLines(_, _, _)
\* the rows of the lines[k..] of hunk hunk_idx that are not expansion placeholders
KeepLines(lines, hunk_idx, k) ==
    IF k > Len(lines) THEN <<>>
    ELSE (IF lines[k].kind = "Expansion" THEN <<>>
          ELSE <<[hunk_idx |-> hunk_idx, line_idx |-> Some(k - 1)]>>)
         \o KeepLines(lines, hunk_idx, k + 1)

\* a variant of flatten_hunk_info that gives expansion placeholders no row
flatten_without_expansions(hunks) ==
    LET RECURSIVE from(_)
        from(hunk_idx) ==
            IF hunk_idx >= Len(hunks) THEN <<>>
            ELSE <<[hunk_idx |-> hunk_idx, line_idx |-> None]>>
                 \o KeepLines(hunks[hunk_idx + 1].lines, hunk_idx, 1)
                 \o from(hunk_idx + 1)
    IN from(0)

\* a variant of flatten_hunk_info that leaves out the header row of each hunk
flatten_lines_only(hunks) ==
    LET RECURSIVE from(_)
        from(hunk_idx) ==
            IF hunk_idx >= Len(hunks) THEN <<>>
            ELSE [k \in 1..Len(hunks[hunk_idx + 1].lines) |->
                        [hunk_idx |-> hunk_idx, line_idx |-> Some(k - 1)]]
                 \o from(hunk_idx + 1)
    IN from(0)

\* flatten_hunk_info: the pairs (hunk_idx, None) for a hunk's header and
\* (hunk_idx, Some(line_idx)) for each of its lines, indices from 0
flatten_hunk_info(hunks) ==
    LET RECURSIVE from(_)
        from(hunk_idx) ==
            IF hunk_idx >= Len(hunks) THEN <<>>
            ELSE <<[hunk_idx |-> hunk_idx, line_idx |-> None]>>
                 \o [k \in 1..Len(hunks[hunk_idx + 1].lines) |->
                        [hunk_idx |-> hunk_idx, line_idx |-> Some(k - 1)]]
                 \o from(hunk_idx + 1)
    IN from(0)

----------------------------------------------------------------------------
(* Nodes of a tree by position: a node is named by the child indices from the root *)

RECURSIVE NodeAt(_, _)
NodeAt(node, p) == IF p = <<>> THEN node ELSE NodeAt(node.children[Head(p)], Tail(p))

RECURSIVE AllNodes(_, _)
\* the positions of every node below node, node at position p
AllNodes(node, p) ==
    {p} \cup UNION {AllNodes(node.children[i], Append(p, i)) : i \in 1..Len(node.children)}

RECURSIVE ApplyAt(_, _)
\* FileTreeNode::toggle called on the node at position p
ApplyAt(node, p) ==
    IF p = <<>> THEN toggle(node)
    ELSE [node EXCEPT !.children[Head(p)] = ApplyAt(@, Tail(p))]

RECURSIVE RowNodes(_, _)
\* the position of the node behind each row of flatten, in row order
RowNodes(node, p) ==
    LET own == IF node.name # <<>> THEN <<p>> ELSE <<>>
        RECURSIVE kids(_)
        kids(i) == IF i > Len(node.children) THEN <<>>
                   ELSE RowNodes(node.children[i], Append(p, i)) \o kids(i + 1)
    IN IF node.expanded \/ node.name = <<>> THEN own \o kids(1) ELSE own

RECURSIVE FullPath(_, _)
\* the names from the root down to position p joined by '/'
FullPath(node, p) ==
    IF p = <<>> THEN <<>>
    ELSE LET c == node.children[Head(p)]
         IN IF Len(p) = 1 THEN c.name
            ELSE c.name \o <<"/">> \o FullPath(c, Tail(p))

IsPrefix(p, q) == Len(p) <= Len(q) /\ SubSeq(q, 1, Len(p)) = p
IsStrictPrefix(p, q) == Len(p) < Len(q) /\ SubSeq(q, 1, Len(p)) = p

\* the positions of a tree without the root
Nodes(tree) == AllNodes(tree, <<>>) \ {<<>>}

----------------------------------------------------------------------------
(* The viewer state (gh_diff_viewer::DiffViewerState) as a record st:           *)
(*   files, file_tree, file_tree_focused, cursor_line, selected_file,           *)
(*   scroll_offset, viewport_height, visual_anchor, current_file,               *)
(*   comment_editor, pending_comments, show_review_popup, selected_review_event *)
(* Indices count from 0 as in the code.                                         *)

\* DiffViewerState::current_file: the FileDiff shown in the content pane
current_file_of(st) ==
    IF st.current_file = None THEN None
    ELSE LET hits == {i \in 1..Len(st.files) : st.files[i].path = Unwrap(st.current_file)}
         IN IF hits = {} THEN None ELSE Some(st.files[CHOOSE i \in hits : TRUE])

\* the rows DiffContentWidget::render draws from: flatten_hunk_info(&file.hunks),
\* nothing without a file
content_rows(st) ==
    LET f == current_file_of(st)
    IN IF f = None THEN <<>> ELSE flatten_hunk_info(Unwrap(f).hunks)

\* render_with_state: the selected row handed to FileTreeWidget
tree_cursor(st) ==
    IF st.file_tree_focused THEN st.cursor_line ELSE st.selected_file

\* a variant of content_cursor that hands cursor_line to the content pane whichever
\* pane is focused
content_cursor_shared(st) ==
    st.cursor_line

\* render_with_state: the cursor line handed to DiffContentWidget
content_cursor(st) ==
    IF st.file_tree_focused THEN 0 ELSE st.cursor_line

\* nav.visual_selection(): the range handed to with_selection, normalized
visual_selection(st) ==
    IF st.visual_anchor = None THEN None
    ELSE Some(<<Min(Unwrap(st.visual_anchor), content_cursor(st)),
                Max(Unwrap(st.visual_anchor), content_cursor(st))>>)

\* a variant of in_selection that leaves out the first row of the range
in_selection_after_start(selection, display_idx) ==
    IF selection = None THEN FALSE
    ELSE display_idx > Unwrap(selection)[1] /\ display_idx <= Unwrap(selection)[2]

\* DiffContentWidget::render: in_selection of the row at display_idx
in_selection(selection, display_idx) ==
    IF selection = None THEN FALSE
    ELSE display_idx >= Unwrap(selection)[1] /\ display_idx <= Unwrap(selection)[2]

\* a variant of drawn_rows that takes one row less than visible_height
drawn_rows_one_short(st) ==
    {i \in 0..(Len(content_rows(st)) - 1) :
        i >= st.scroll_offset /\ i < st.scroll_offset + st.viewport_height - 1}

\* DiffContentWidget::render: the display indices drawn, skip(scroll_offset) then
\* take(visible_height)
drawn_rows(st) ==
    {i \in 0..(Len(content_rows(st)) - 1) :
        i >= st.scroll_offset /\ i < st.scroll_offset + st.viewport_height}

\* an index clamped into [0, len - 1], 0 for an empty sequence
clamp_index(i, len) ==
    IF len = 0 THEN 0 ELSE Min(Max(i, 0), len - 1)

\* scroll maintenance: the least shift of scroll that shows cursor in height rows
ensure_visible(cursor, scroll, height) ==
    IF cursor < scroll THEN cursor
    ELSE IF height >= 1 /\ cursor >= scroll + height THEN cursor - height + 1
    ELSE scroll

\* the last scroll offset that still fills the viewport
max_scroll(len, height) ==
    IF len = 0 THEN 0 ELSE Min(Max(len - height, 0), len - 1)

\* a variant of select_row that drops the pending comments when the file changes
select_row_dropping_comments(st, row) ==
    LET rows == flatten(st.file_tree)
    IN IF row < Len(rows) /\ ~rows[row + 1].is_dir /\ rows[row + 1].path # st.current_file
       THEN LET st2 == [st EXCEPT !.current_file = rows[row + 1].path]
            IN [st2 EXCEPT !.scroll_offset = 0,
                           !.pending_comments = <<>>,
                           !.visual_anchor =
                                IF @ = None THEN None
                                ELSE Some(clamp_index(Unwrap(@), Len(content_rows(st2))))]
       ELSE st

\* file selection change: the tree cursor is on row; a file row other than the
\* current file becomes the current file, content scroll and selection re-validated
select_row(st, row) ==
    LET rows == flatten(st.file_tree)
    IN IF row < Len(rows) /\ ~rows[row + 1].is_dir /\ rows[row + 1].path # st.current_file
       THEN LET st2 == [st EXCEPT !.current_file = rows[row + 1].path]
            IN [st2 EXCEPT !.scroll_offset = 0,
                           !.visual_anchor =
                                IF @ = None THEN None
                                ELSE Some(clamp_index(Unwrap(@), Len(content_rows(st2))))]
       ELSE st

\* the focused pane's cursor set to target, clamped to that pane's rows
move_cursor(st, target) ==
    IF st.file_tree_focused
    THEN LET c == clamp_index(target, Len(flatten(st.file_tree)))
         IN select_row([st EXCEPT !.cursor_line = c, !.selected_file = c], c)
    ELSE LET c == clamp_index(target, Len(content_rows(st)))
         IN [st EXCEPT !.cursor_line = c,
                       !.scroll_offset = ensure_visible(c, @, st.viewport_height)]

\* page up / page down: cursor and scroll both move by delta rows; the cursor stops
\* at the first and last row, the scroll at 0 and at the last offset that fills
\* the viewport (it never moves against the direction of the page)
move_page(st, delta) ==
    IF st.file_tree_focused THEN move_cursor(st, st.cursor_line + delta)
    ELSE LET len == Len(content_rows(st))
             c == clamp_index(st.cursor_line + delta, len)
             last_offset == Max(st.scroll_offset, max_scroll(len, st.viewport_height))
             sc == Min(Max(st.scroll_offset + delta, 0), last_offset)
         IN [st EXCEPT !.cursor_line = c,
                       !.scroll_offset = ensure_visible(c, sc, st.viewport_height)]

\* the row showing the node at position p, else the row of its nearest ancestor
\* that has one, else row 0
resolve_row(tree, p) ==
    LET N == RowNodes(tree, <<>>)
        hits == {i \in 1..Len(N) : IsPrefix(N[i], p)}
    IN IF hits = {} THEN 0
       ELSE (CHOOSE i \in hits : \A j \in hits : Len(N[j]) <= Len(N[i])) - 1

\* a variant of toggle_tree_node that keeps the cursor's index as it was
toggle_keeping_index(st) ==
    LET rows == flatten(st.file_tree)
    IN IF ~st.file_tree_focused \/ st.cursor_line >= Len(rows) THEN st
       ELSE IF ~rows[st.cursor_line + 1].is_dir THEN st
       ELSE [st EXCEPT !.file_tree =
                toggle_at_path(st.file_tree, rows[st.cursor_line + 1].name).node]

\* toggle the directory under the tree cursor, then find the cursor's node again
toggle_tree_node(st) ==
    LET rows == flatten(st.file_tree)
    IN IF ~st.file_tree_focused \/ st.cursor_line >= Len(rows) THEN st
       ELSE IF ~rows[st.cursor_line + 1].is_dir THEN st
       ELSE LET p == RowNodes(st.file_tree, <<>>)[st.cursor_line + 1]
                t == toggle_at_path(st.file_tree, rows[st.cursor_line + 1].name).node
                c == resolve_row(t, p)
            IN [st EXCEPT !.file_tree = t, !.cursor_line = c, !.selected_file = c]

\* focus to the tree: the tree cursor is the remembered selected_file
focus_file_tree(st) ==
    IF st.file_tree_focused THEN st
    ELSE [st EXCEPT !.file_tree_focused = TRUE, !.cursor_line = st.selected_file]

\* focus to the content: the tree cursor is remembered, the content cursor is the
\* line 0 the content pane showed while the tree was focused
focus_diff_content(st) ==
    IF ~st.file_tree_focused THEN st
    ELSE [st EXCEPT !.file_tree_focused = FALSE,
                    !.selected_file = st.cursor_line,
                    !.cursor_line = 0,
                    !.scroll_offset = ensure_visible(0, @, st.viewport_height)]

\* the review events the popup cycles through
ReviewEvents == <<"Comment", "Approve", "RequestChanges">>

\* the position of a review event in ReviewEvents
ReviewEventIndex(e) == CHOOSE i \in 1..Len(ReviewEvents) : ReviewEvents[i] = e

\* a variant of effective_line that prefers the old line number
effective_line_old_first(line) ==
    IF line.old_line # None THEN Unwrap(line.old_line)
    ELSE IF line.new_line # None THEN Unwrap(line.new_line)
    ELSE 0

\* the line number a comment on line is bound to: the new line number if present,
\* else the old one, else 0
effective_line(line) ==
    IF line.new_line # None THEN Unwrap(line.new_line)
    ELSE IF line.old_line # None THEN Unwrap(line.old_line)
    ELSE 0

\* DiffViewerState::comments_for_file: the pending comments on path, in order
comments_for_file(st, path) ==
    SelectSeq(st.pending_comments, LAMBDA c : c.path = path)

\* render_with_state: the comments handed to DiffContentWidget
widget_comments(st) ==
    IF current_file_of(st) = None THEN <<>>
    ELSE comments_for_file(st, Unwrap(current_file_of(st)).path)

\* a variant of has_comment that compares with the old line number first
has_comment_old_first(comments, line) ==
    \E i \in 1..Len(comments) : comments[i].line = effective_line_old_first(line)

\* render_diff_line: some comment is on the line's number
has_comment(comments, line) ==
    \E i \in 1..Len(comments) : comments[i].line = effective_line(line)

\* DiffContentWidget::render: for each row, whether it gets the comment indicator;
\* a hunk header is drawn by render_hunk_header, which draws none
comment_indicators(st) ==
    LET f == current_file_of(st)
        rows == content_rows(st)
    IN [k \in 1..Len(rows) |->
            IF rows[k].line_idx = None THEN FALSE
            ELSE has_comment(widget_comments(st),
                             Unwrap(f).hunks[rows[k].hunk_idx + 1]
                                      .lines[Unwrap(rows[k].line_idx) + 1])]

\* the effective line number of the row under the content cursor; 0 for a hunk
\* header and where there is no row
cursor_line_number(st) ==
    LET f == current_file_of(st)
        rows == content_rows(st)
        i == content_cursor(st) + 1
    IN IF f = None \/ i > Len(rows) THEN 0
       ELSE IF rows[i].line_idx = None THEN 0
       ELSE effective_line(Unwrap(f).hunks[rows[i].hunk_idx + 1]
                                .lines[Unwrap(rows[i].line_idx) + 1])

\* neither the comment editor nor the review popup is open
no_overlay(st) == st.comment_editor = None /\ ~st.show_review_popup

\* StartComment: the mode becomes comment editing, with a new draft bound to the
\* file shown and the line under the cursor; refused without a file
start_comment(st) ==
    IF st.current_file = None THEN st
    ELSE [st EXCEPT !.comment_editor =
                        Some([path |-> Unwrap(st.current_file),
                              line |-> cursor_line_number(st), body |-> <<>>]),
                    !.show_review_popup = FALSE,
                    !.visual_anchor = None]

\* a variant of commit_comment that puts the draft before the pending comments
commit_comment_first(st) ==
    IF st.comment_editor = None THEN st
    ELSE [st EXCEPT !.pending_comments = <<Unwrap(st.comment_editor)>> \o @,
                    !.comment_editor = None]

\* CommitComment: the draft becomes the last pending comment
commit_comment(st) ==
    IF st.comment_editor = None THEN st
    ELSE [st EXCEPT !.pending_comments = Append(@, Unwrap(st.comment_editor)),
                    !.comment_editor = None]

\* CommentInsertChar
comment_insert_char(st, ch) ==
    IF st.comment_editor = None THEN st
    ELSE [st EXCEPT !.comment_editor =
                        Some([Unwrap(@) EXCEPT !.body = Append(@, ch)])]

\* CommentBackspace
comment_backspace(st) ==
    IF st.comment_editor = None THEN st
    ELSE [st EXCEPT !.comment_editor =
                        Some([Unwrap(@) EXCEPT !.body = SubSeq(@, 1, Len(@) - 1)])]

\* a variant of show_review that leaves the visual selection in place
show_review_keeping_selection(st) ==
    IF ~no_overlay(st) THEN st
    ELSE [st EXCEPT !.show_review_popup = TRUE]

\* ShowReviewPopup: the mode becomes the review popup, unless an overlay is open
\* already; a visual selection ends
show_review(st) ==
    IF ~no_overlay(st) THEN st
    ELSE [st EXCEPT !.show_review_popup = TRUE, !.visual_anchor = None]

\* ReviewOptionNext / ReviewOptionPrev: the choice moves by step, cyclically
review_option(st, step) ==
    [st EXCEPT !.selected_review_event =
        ReviewEvents[((ReviewEventIndex(@) - 1 + step + Len(ReviewEvents))
                        % Len(ReviewEvents)) + 1]]

\* SubmitReview: the popup closes; the pending comments wait for the sink's report
submit_review(st) ==
    [st EXCEPT !.show_review_popup = FALSE]

\* the review-submission intent: every pending comment in order and the chosen event
submit_intent(st) ==
    [kind |-> "SubmitReview", comments |-> st.pending_comments,
     event |-> st.selected_review_event]

\* the DiffEvents DiffViewerState::handle_action returns
handle_action_events(st, a) ==
    IF a.type = "SubmitReview" THEN <<submit_intent(st)>> ELSE <<>>

\* DiffViewerState::handle_action
handle_action(st, a) ==
    CASE a.type = "CursorDown" -> move_cursor(st, st.cursor_line + 1)
      [] a.type = "CursorUp" -> move_cursor(st, st.cursor_line - 1)
      [] a.type = "CursorFirst" -> move_cursor(st, 0)
      [] a.type = "CursorLast" ->
            move_cursor(st, IF st.file_tree_focused THEN Len(flatten(st.file_tree)) - 1
                            ELSE Len(content_rows(st)) - 1)
      [] a.type = "ScrollPageDown" -> move_page(st, st.viewport_height)
      [] a.type = "ScrollPageUp" -> move_page(st, 0 - st.viewport_height)
      [] a.type = "FocusFileTree" -> focus_file_tree(st)
      [] a.type = "FocusDiffContent" -> focus_diff_content(st)
      [] a.type = "ToggleFocus" ->
            IF st.file_tree_focused THEN focus_diff_content(st) ELSE focus_file_tree(st)
      [] a.type = "ToggleTreeNode" -> toggle_tree_node(st)
      [] a.type = "EnterVisualMode" ->
            IF no_overlay(st) THEN [st EXCEPT !.visual_anchor = Some(content_cursor(st))]
            ELSE st
      [] a.type = "ExitVisualMode" -> [st EXCEPT !.visual_anchor = None]
      [] a.type = "SetViewport" -> [st EXCEPT !.viewport_height = a.height]
      [] a.type = "StartComment" -> start_comment(st)
      [] a.type = "CancelComment" -> [st EXCEPT !.comment_editor = None]
      [] a.type = "CommitComment" -> commit_comment(st)
      [] a.type = "CommentInsertChar" -> comment_insert_char(st, a.ch)
      [] a.type = "CommentBackspace" -> comment_backspace(st)
      [] a.type = "ShowReviewPopup" -> show_review(st)
      [] a.type = "HideReviewPopup" -> [st EXCEPT !.show_review_popup = FALSE]
      [] a.type = "ReviewOptionNext" -> review_option(st, 1)
      [] a.type = "ReviewOptionPrev" -> review_option(st, -1)
      [] a.type = "SubmitReview" -> submit_review(st)
      [] OTHER -> st

\* DiffViewerState::new(diff)
new_state(diff) ==
    select_row([files |-> diff, file_tree |-> from_files(diff),
                file_tree_focused |-> TRUE, cursor_line |-> 0, selected_file |-> 0,
                scroll_offset |-> 0, viewport_height |-> 0, visual_anchor |-> None,
                current_file |-> None, comment_editor |-> None,
                pending_comments |-> <<>>, show_review_popup |-> FALSE,
                selected_review_event |-> "Comment"], 0)

----------------------------------------------------------------------------
(* The reducer (gh-pr-lander): state is [inner, load_state, st] *)

\* a variant of translate with EnterVisualMode and ExitVisualMode swapped
translate_visual_swapped(action) ==
    CASE action.type = "NavigateDown" -> [type |-> "CursorDown"]
      [] action.type = "NavigateUp" -> [type |-> "CursorUp"]
      [] action.type = "NavigateLeft" -> [type |-> "FocusFileTree"]
      [] action.type = "NavigateRight" -> [type |-> "FocusDiffContent"]
      [] action.type = "NavigateToTop" -> [type |-> "CursorFirst"]
      [] action.type = "NavigateToBottom" -> [type |-> "CursorLast"]
      [] action.type = "PageDown" -> [type |-> "ScrollPageDown"]
      [] action.type = "PageUp" -> [type |-> "ScrollPageUp"]
      [] action.type = "Toggle" -> [type |-> "ToggleTreeNode"]
      [] action.type = "SwitchPane" -> [type |-> "ToggleFocus"]
      [] action.type = "EnterVisualMode" -> [type |-> "ExitVisualMode"]
      [] action.type = "ExitVisualMode" -> [type |-> "EnterVisualMode"]
      [] action.type = "SetViewport" -> [type |-> "SetViewport", height |-> action.height]

\* a variant of translate with PageDown and PageUp swapped
translate_pages_swapped(action) ==
    CASE action.type = "NavigateDown" -> [type |-> "CursorDown"]
      [] action.type = "NavigateUp" -> [type |-> "CursorUp"]
      [] action.type = "NavigateLeft" -> [type |-> "FocusFileTree"]
      [] action.type = "NavigateRight" -> [type |-> "FocusDiffContent"]
      [] action.type = "NavigateToTop" -> [type |-> "CursorFirst"]
      [] action.type = "NavigateToBottom" -> [type |-> "CursorLast"]
      [] action.type = "PageDown" -> [type |-> "ScrollPageUp"]
      [] action.type = "PageUp" -> [type |-> "ScrollPageDown"]
      [] action.type = "Toggle" -> [type |-> "ToggleTreeNode"]
      [] action.type = "SwitchPane" -> [type |-> "ToggleFocus"]
      [] action.type = "EnterVisualMode" -> [type |-> "EnterVisualMode"]
      [] action.type = "ExitVisualMode" -> [type |-> "ExitVisualMode"]
      [] action.type = "SetViewport" -> [type |-> "SetViewport", height |-> action.height]

\* a variant of translate with the two vertical moves swapped
translate_swapped(action) ==
    CASE action.type = "NavigateDown" -> [type |-> "CursorUp"]
      [] action.type = "NavigateUp" -> [type |-> "CursorDown"]
      [] action.type = "NavigateLeft" -> [type |-> "FocusFileTree"]
      [] action.type = "NavigateRight" -> [type |-> "FocusDiffContent"]
      [] action.type = "NavigateToTop" -> [type |-> "CursorFirst"]
      [] action.type = "NavigateToBottom" -> [type |-> "CursorLast"]
      [] action.type = "PageDown" -> [type |-> "ScrollPageDown"]
      [] action.type = "PageUp" -> [type |-> "ScrollPageUp"]
      [] action.type = "Toggle" -> [type |-> "ToggleTreeNode"]
      [] action.type = "SwitchPane" -> [type |-> "ToggleFocus"]
      [] action.type = "EnterVisualMode" -> [type |-> "EnterVisualMode"]
      [] action.type = "ExitVisualMode" -> [type |-> "ExitVisualMode"]
      [] action.type = "SetViewport" -> [type |-> "SetViewport", height |-> action.height]

\* the DiffAction reduce_diff_viewer forwards for a DiffViewerAction
translate(action) ==
    CASE action.type = "NavigateDown" -> [type |-> "CursorDown"]
      [] action.type = "NavigateUp" -> [type |-> "CursorUp"]
      [] action.type = "NavigateLeft" -> [type |-> "FocusFileTree"]
      [] action.type = "NavigateRight" -> [type |-> "FocusDiffContent"]
      [] action.type = "NavigateToTop" -> [type |-> "CursorFirst"]
      [] action.type = "NavigateToBottom" -> [type |-> "CursorLast"]
      [] action.type = "PageDown" -> [type |-> "ScrollPageDown"]
      [] action.type = "PageUp" -> [type |-> "ScrollPageUp"]
      [] action.type = "Toggle" -> [type |-> "ToggleTreeNode"]
      [] action.type = "SwitchPane" -> [type |-> "ToggleFocus"]
      [] action.type = "EnterVisualMode" -> [type |-> "EnterVisualMode"]
      [] action.type = "ExitVisualMode" -> [type |-> "ExitVisualMode"]
      [] action.type = "SetViewport" -> [type |-> "SetViewport", height |-> action.height]

\* a variant of translate_review with CancelComment and CommitComment swapped
translate_review_swapped(action) ==
    CASE action.type = "AddComment" -> [type |-> "StartComment"]
      [] action.type = "CancelComment" -> [type |-> "CommitComment"]
      [] action.type = "CommitComment" -> [type |-> "CancelComment"]
      [] action.type = "CommentChar" -> [type |-> "CommentInsertChar", ch |-> action.ch]
      [] action.type = "CommentBackspace" -> [type |-> "CommentBackspace"]
      [] action.type = "ShowReviewPopup" -> [type |-> "ShowReviewPopup"]
      [] action.type = "HideReviewPopup" -> [type |-> "HideReviewPopup"]
      [] action.type = "ReviewOptionNext" -> [type |-> "ReviewOptionNext"]
      [] action.type = "ReviewOptionPrev" -> [type |-> "ReviewOptionPrev"]
      [] action.type = "SubmitReview" -> [type |-> "SubmitReview"]

\* the DiffAction reduce_diff_viewer forwards for a comment or review action
translate_review(action) ==
    CASE action.type = "AddComment" -> [type |-> "StartComment"]
      [] action.type = "CancelComment" -> [type |-> "CancelComment"]
      [] action.type = "CommitComment" -> [type |-> "CommitComment"]
      [] action.type = "CommentChar" -> [type |-> "CommentInsertChar", ch |-> action.ch]
      [] action.type = "CommentBackspace" -> [type |-> "CommentBackspace"]
      [] action.type = "ShowReviewPopup" -> [type |-> "ShowReviewPopup"]
      [] action.type = "HideReviewPopup" -> [type |-> "HideReviewPopup"]
      [] action.type = "ReviewOptionNext" -> [type |-> "ReviewOptionNext"]
      [] action.type = "ReviewOptionPrev" -> [type |-> "ReviewOptionPrev"]
      [] action.type = "SubmitReview" -> [type |-> "SubmitReview"]

\* the comment and review actions of DiffViewerAction
ReviewActions ==
    {"AddComment", "CancelComment", "CommitComment", "CommentChar", "CommentBackspace",
     "ShowReviewPopup", "HideReviewPopup", "ReviewOptionNext", "ReviewOptionPrev",
     "SubmitReview"}

\* DiffViewerState::load of the panel: a new viewer state for the diff; the
\* comments not yet submitted stay pending over a reload
load(state, diff) ==
    [inner |-> TRUE, load_state |-> "loaded",
     st |-> [new_state(diff) EXCEPT !.pending_comments =
                IF state.inner THEN state.st.pending_comments ELSE <<>>]]

\* a variant of set_error that drops the viewer state
set_error_dropping_inner(state) ==
    [inner |-> FALSE, load_state |-> "error", st |-> new_state(<<>>)]

\* DiffViewerState::set_error of the panel: the error is recorded, the viewer
\* state stays
set_error(state) ==
    [state EXCEPT !.load_state = "error"]

\* what leaves forward_action besides the state: the events handle_action returns
\* are bound to _events and dropped
forward_action_events(state, a) ==
    SubSeq(IF state.inner THEN handle_action_events(state.st, a) ELSE <<>>, 1, 0)

\* a variant of forward_action that does not look whether an inner state exists
forward_action_unguarded(state, a) ==
    [state EXCEPT !.st = handle_action(@, a)]

\* forward_action: handle_action on the inner state if it exists
forward_action(state, a) ==
    IF state.inner THEN [state EXCEPT !.st = handle_action(@, a)] ELSE state

\* a variant of reduce_diff_viewer whose Event arm empties the pending comments
\* whatever the event reports
reduce_clearing_on_event(state, action) ==
    CASE action.type = "Open" -> state
      [] action.type = "LoadStart" -> [state EXCEPT !.load_state = "loading"]
      [] action.type = "Loaded" -> load(state, action.diff)
      [] action.type = "LoadError" -> set_error(state)
      [] action.type \in {"ExpandAll", "CollapseAll"} -> state
      [] action.type = "Event" -> [state EXCEPT !.st.pending_comments = <<>>]
      [] action.type \in ReviewActions -> forward_action(state, translate_review(action))
      [] OTHER -> forward_action(state, translate(action))

\* reduce_diff_viewer
reduce_diff_viewer(state, action) ==
    CASE action.type = "Open" -> state
      [] action.type = "LoadStart" -> [state EXCEPT !.load_state = "loading"]
      [] action.type = "Loaded" -> load(state, action.diff)
      [] action.type = "LoadError" -> set_error(state)
      [] action.type \in {"ExpandAll", "CollapseAll", "Event"} -> state
      [] action.type \in ReviewActions -> forward_action(state, translate_review(action))
      [] OTHER -> forward_action(state, translate(action))

\* the events that leave reduce_diff_viewer with the state: those forward_action
\* lets through for a forwarded action, none for the others
reduce_events(state, action) ==
    IF action.type \in ReviewActions
    THEN forward_action_events(state, translate_review(action))
    ELSE <<>>

----------------------------------------------------------------------------
(* The diff viewer panel: every DiffViewerAction through reduce_diff_viewer *)

\* the diffs the diff source delivers: a directory inside a directory of the same
\* name, no files at all, same-named directories at different depths
DiffPool ==
    <<<<FilePool[5], FilePool[6]>>,
      <<>>,
      <<FileDiff(<<"a", "/", "x", "/", "f">>, "Modified", 1, 0, <<TinyHunk>>),
        FileDiff(<<"x", "/", "g">>, "Renamed", 0, 0, <<>>)>>,
      <<FilePool[3]>>>>

\* the panel's state as reduce_diff_viewer takes it
Panel ==
    [inner |-> inner, load_state |-> load_state,
     st |-> [files |-> files, file_tree |-> file_tree,
             file_tree_focused |-> file_tree_focused, cursor_line |-> cursor_line,
             selected_file |-> selected_file, scroll_offset |-> scroll_offset,
             viewport_height |-> viewport_height, visual_anchor |-> visual_anchor,
             current_file |-> current_file, comment_editor |-> comment_editor,
             pending_comments |-> pending_comments,
             show_review_popup |-> show_review_popup,
             selected_review_event |-> selected_review_event]]

\* the variables hold the panel state p
PanelIs(p) ==
    /\ inner = p.inner
    /\ load_state = p.load_state
    /\ files = p.st.files
    /\ file_tree = p.st.file_tree
    /\ file_tree_focused = p.st.file_tree_focused
    /\ cursor_line = p.st.cursor_line
    /\ selected_file = p.st.selected_file
    /\ scroll_offset = p.st.scroll_offset
    /\ viewport_height = p.st.viewport_height
    /\ visual_anchor = p.st.visual_anchor
    /\ current_file = p.st.current_file
    /\ comment_editor = p.st.comment_editor
    /\ pending_comments = p.st.pending_comments
    /\ show_review_popup = p.st.show_review_popup
    /\ selected_review_event = p.st.selected_review_event

\* DiffViewerState::default(): no inner state
NoPanel == [inner |-> FALSE, load_state |-> "idle", st |-> new_state(<<>>)]

\* the application outside the diff viewer at its start: the splash view, no
\* repository, no client, no thread and no task
AppIdle ==
    /\ view_stack = <<[id |-> "Splash", floating |-> FALSE]>>
    /\ repositories = <<>>
    /\ add_repo_form = None
    /\ octocrab = FALSE
    /\ tick_thread_started = FALSE
    /\ tick_threads = <<>>
    /\ tasks = <<>>

AppUnchanged ==
    UNCHANGED <<view_stack, repositories, add_repo_form, octocrab,
                tick_thread_started, tick_threads, tasks>>

\* the main loop before run_app: nothing queued, nothing in flight
LoopIdle ==
    /\ queue = <<>>
    /\ in_flight = None
    /\ running = TRUE
    /\ pc = "start"

LoopUnchanged == UNCHANGED <<queue, in_flight, running, pc>>

Init ==
    /\ PanelIs(NoPanel)
    /\ LoopIdle
    /\ AppIdle
    /\ last = [action |-> [type |-> "Init"], before |-> NoPanel, events |-> <<>>]

\* store.dispatch(Action::DiffViewer(action)): the reducer applied to completion
Reduce(action) ==
    \E p \in {reduce_diff_viewer(Panel, action)} :
       /\ inner' = p.inner
       /\ load_state' = p.load_state
       /\ files' = p.st.files
       /\ file_tree' = p.st.file_tree
       /\ file_tree_focused' = p.st.file_tree_focused
       /\ cursor_line' = p.st.cursor_line
       /\ selected_file' = p.st.selected_file
       /\ scroll_offset' = p.st.scroll_offset
       /\ viewport_height' = p.st.viewport_height
       /\ visual_anchor' = p.st.visual_anchor
       /\ current_file' = p.st.current_file
       /\ comment_editor' = p.st.comment_editor
       /\ pending_comments' = p.st.pending_comments
       /\ show_review_popup' = p.st.show_review_popup
       /\ selected_review_event' = p.st.selected_review_event
       /\ LoopUnchanged
       /\ AppUnchanged

\* the history: the action applied and the panel it was applied to
Record(action) ==
    last' = [action |-> action, before |-> Panel,
             events |-> reduce_events(Panel, action)]

Open ==
    /\ Reduce([type |-> "Open"])
    /\ Record([type |-> "Open"])

LoadStart ==
    /\ Reduce([type |-> "LoadStart"])
    /\ Record([type |-> "LoadStart"])

Loaded ==
    \E d \in 1..MaxDiffs :
        /\ Reduce([type |-> "Loaded", diff |-> DiffPool[d]])
        /\ Record([type |-> "Loaded", diff |-> DiffPool[d]])

LoadError ==
    /\ Reduce([type |-> "LoadError"])
    /\ Record([type |-> "LoadError"])

NavigateDown ==
    /\ Reduce([type |-> "NavigateDown"])
    /\ Record([type |-> "NavigateDown"])

NavigateUp ==
    /\ Reduce([type |-> "NavigateUp"])
    /\ Record([type |-> "NavigateUp"])

NavigateLeft ==
    /\ Reduce([type |-> "NavigateLeft"])
    /\ Record([type |-> "NavigateLeft"])

NavigateRight ==
    /\ Reduce([type |-> "NavigateRight"])
    /\ Record([type |-> "NavigateRight"])

NavigateToTop ==
    /\ Reduce([type |-> "NavigateToTop"])
    /\ Record([type |-> "NavigateToTop"])

NavigateToBottom ==
    /\ Reduce([type |-> "NavigateToBottom"])
    /\ Record([type |-> "NavigateToBottom"])

PageDown ==
    /\ Reduce([type |-> "PageDown"])
    /\ Record([type |-> "PageDown"])

PageUp ==
    /\ Reduce([type |-> "PageUp"])
    /\ Record([type |-> "PageUp"])

Toggle ==
    /\ Reduce([type |-> "Toggle"])
    /\ Record([type |-> "Toggle"])

ExpandAll ==
    /\ Reduce([type |-> "ExpandAll"])
    /\ Record([type |-> "ExpandAll"])

CollapseAll ==
    /\ Reduce([type |-> "CollapseAll"])
    /\ Record([type |-> "CollapseAll"])

SwitchPane ==
    /\ Reduce([type |-> "SwitchPane"])
    /\ Record([type |-> "SwitchPane"])

EnterVisualMode ==
    /\ Reduce([type |-> "EnterVisualMode"])
    /\ Record([type |-> "EnterVisualMode"])

ExitVisualMode ==
    /\ Reduce([type |-> "ExitVisualMode"])
    /\ Record([type |-> "ExitVisualMode"])

\* the lines an expansion source returns for a placeholder
FetchedLines ==
    <<DiffLine("Context", Some(8), Some(8)), DiffLine("Context", Some(9), Some(9))>>

\* the DiffEvent an Event action carries: the results that come back from the
\* expansion source and from the review sink
DiffEvents ==
    {[kind |-> "ExpansionFetched", path |-> <<"f">>, lines |-> FetchedLines],
     [kind |-> "ReviewSubmitted"],
     [kind |-> "ReviewFailed"]}

Event ==
    \E e \in DiffEvents :
        /\ Reduce([type |-> "Event", event |-> e])
        /\ Record([type |-> "Event", event |-> e])

SetViewport ==
    \E h \in 0..MaxHeight :
        /\ Reduce([type |-> "SetViewport", height |-> h])
        /\ Record([type |-> "SetViewport", height |-> h])

Next ==
    \/ Open
    \/ LoadStart
    \/ Loaded
    \/ LoadError
    \/ NavigateDown
    \/ NavigateUp
    \/ NavigateLeft
    \/ NavigateRight
    \/ NavigateToTop
    \/ NavigateToBottom
    \/ PageDown
    \/ PageUp
    \/ Toggle
    \/ ExpandAll
    \/ CollapseAll
    \/ SwitchPane
    \/ EnterVisualMode
    \/ ExitVisualMode
    \/ Event
    \/ SetViewport

Spec == Init /\ [][Next]_vars

----------------------------------------------------------------------------
(* Commenting and reviewing a loaded diff (SpecReview) *)

\* the diffs under review: two files at the root, one with a deleted line and an
\* expansion placeholder, one with an added line; and a diff without files
ReviewDiffs ==
    <<<<FilePool[6], FileDiff(<<"g">>, "Added", 1, 0, <<TinyHunk>>)>>,
      <<>>>>

\* the characters typed into a comment
CommentChars == {"a"}

LoadReview ==
    \E d \in 1..Len(ReviewDiffs) :
        /\ Reduce([type |-> "Loaded", diff |-> ReviewDiffs[d]])
        /\ Record([type |-> "Loaded", diff |-> ReviewDiffs[d]])

AddComment ==
    /\ Reduce([type |-> "AddComment"])
    /\ Record([type |-> "AddComment"])

CancelComment ==
    /\ Reduce([type |-> "CancelComment"])
    /\ Record([type |-> "CancelComment"])

CommitComment ==
    /\ Len(pending_comments) < MaxComments
    /\ Reduce([type |-> "CommitComment"])
    /\ Record([type |-> "CommitComment"])

CommentChar ==
    \E ch \in CommentChars :
        /\ comment_editor # None => Len(Unwrap(comment_editor).body) < MaxBody
        /\ Reduce([type |-> "CommentChar", ch |-> ch])
        /\ Record([type |-> "CommentChar", ch |-> ch])

CommentBackspace ==
    /\ Reduce([type |-> "CommentBackspace"])
    /\ Record([type |-> "CommentBackspace"])

ShowReviewPopup ==
    /\ Reduce([type |-> "ShowReviewPopup"])
    /\ Record([type |-> "ShowReviewPopup"])

HideReviewPopup ==
    /\ Reduce([type |-> "HideReviewPopup"])
    /\ Record([type |-> "HideReviewPopup"])

ReviewOptionNext ==
    /\ Reduce([type |-> "ReviewOptionNext"])
    /\ Record([type |-> "ReviewOptionNext"])

ReviewOptionPrev ==
    /\ Reduce([type |-> "ReviewOptionPrev"])
    /\ Record([type |-> "ReviewOptionPrev"])

SubmitReview ==
    /\ Reduce([type |-> "SubmitReview"])
    /\ Record([type |-> "SubmitReview"])

NextReview ==
    \/ LoadReview
    \/ NavigateDown
    \/ NavigateUp
    \/ AddComment
    \/ CancelComment
    \/ CommitComment
    \/ CommentChar
    \/ CommentBackspace
    \/ ShowReviewPopup
    \/ HideReviewPopup
    \/ ReviewOptionNext
    \/ ReviewOptionPrev
    \/ SubmitReview
    \/ Event

SpecReview == Init /\ [][NextReview]_vars

----------------------------------------------------------------------------
(* Commenting on the lines of a loaded diff (SpecComment) *)

\* a hunk of one context line whose old and new line numbers differ
MovedHunk == Hunk(<<DiffLine("Context", Some(2), Some(7))>>)

\* the diffs commented on: a file inside a directory with a deleted line 7 and an
\* expansion placeholder, and a file at the root whose only line is new line 7;
\* and a diff without files
CommentDiffs ==
    <<<<FilePool[4], FileDiff(<<"g">>, "Modified", 0, 0, <<MovedHunk>>)>>,
      <<>>>>

LoadComment ==
    \E d \in 1..Len(CommentDiffs) :
        /\ Reduce([type |-> "Loaded", diff |-> CommentDiffs[d]])
        /\ Record([type |-> "Loaded", diff |-> CommentDiffs[d]])

\* CommitComment while fewer than MaxPending comments are pending
CommitLineComment ==
    /\ Len(pending_comments) < MaxPending
    /\ Reduce([type |-> "CommitComment"])
    /\ Record([type |-> "CommitComment"])

NextComment ==
    \/ LoadComment
    \/ LoadError
    \/ NavigateDown
    \/ NavigateUp
    \/ SwitchPane
    \/ Toggle
    \/ EnterVisualMode
    \/ ExitVisualMode
    \/ AddComment
    \/ CancelComment
    \/ CommitLineComment
    \/ ShowReviewPopup
    \/ HideReviewPopup

SpecComment == Init /\ [][NextComment]_vars

----------------------------------------------------------------------------
(* The dispatcher queue and the main loop of run_app (SpecQueue) *)
(* An action is [id, src, quit]: the id numbers the actions in the order they   *)
(* were put on the queue, src is who dispatched it, quit marks GlobalAction::Quit. *)
(* last holds the history: every action put on the queue and every action       *)
(* store.dispatch has finished, each in order, and whether a drain ever stopped  *)
(* with actions still queued.                                                    *)

\* Dispatcher::dispatch: push_back under the lock
dispatch(q, action) == Append(q, action)

\* a variant of pop that takes the newest action
pop_newest(q) ==
    IF q = <<>> THEN [action |-> None, queue |-> q]
    ELSE [action |-> Some(q[Len(q)]), queue |-> SubSeq(q, 1, Len(q) - 1)]

\* Dispatcher::pop: pop_front under the lock
pop(q) ==
    IF q = <<>> THEN [action |-> None, queue |-> q]
    ELSE [action |-> Some(Head(q)), queue |-> Tail(q)]

PanelUnchanged ==
    UNCHANGED <<files, file_tree, inner, load_state, file_tree_focused, cursor_line,
                selected_file, scroll_offset, viewport_height, visual_anchor,
                current_file, comment_editor, pending_comments, show_review_popup,
                selected_review_event>>

InitQueue ==
    /\ PanelIs(NoPanel)
    /\ LoopIdle
    /\ AppIdle
    /\ last = [action |-> "init", enqueued |-> <<>>, applied |-> <<>>,
               stopped_early |-> FALSE]

\* the history after a step that put enq on the queue and finished app
Step(name, enq, app, early) ==
    last' = [action |-> name, enqueued |-> last.enqueued \o enq,
             applied |-> last.applied \o app,
             stopped_early |-> last.stopped_early \/ early]

\* dispatcher.dispatch of a new action by src
Enqueue(name, src, quit) ==
    /\ Len(last.enqueued) < MaxActions
    /\ \E a \in {[id |-> Len(last.enqueued) + 1, src |-> src, quit |-> quit]} :
          /\ queue' = dispatch(queue, a)
          /\ Step(name, <<a>>, <<>>, FALSE)

\* run_app queues BootstrapAction::Start before the loop
Bootstrap ==
    /\ pc = "start"
    /\ Enqueue("Bootstrap", "main", FALSE)
    /\ pc' = "drain"
    /\ UNCHANGED <<in_flight, running>>
    /\ PanelUnchanged
    /\ AppUnchanged

\* a spawned task dispatches a result, at any moment of the loop
BackgroundDispatch ==
    /\ pc \notin {"start", "stopped"}
    /\ Enqueue("BackgroundDispatch", "background", FALSE)
    /\ UNCHANGED <<in_flight, running, pc>>
    /\ PanelUnchanged
    /\ AppUnchanged

\* while let Some(action) = store.dispatcher().pop()
Pop ==
    /\ pc = "drain"
    /\ \E r \in {pop(queue)} :
          /\ r.action # None
          /\ in_flight' = r.action
          /\ queue' = r.queue
    /\ pc' = "dispatch"
    /\ Step("Pop", <<>>, <<>>, FALSE)
    /\ UNCHANGED running
    /\ PanelUnchanged
    /\ AppUnchanged

\* pop returned None: the loop goes on to render
DrainEmpty ==
    /\ pc = "drain"
    /\ pop(queue).action = None
    /\ pc' = "render"
    /\ Step("DrainEmpty", <<>>, <<>>, FALSE)
    /\ UNCHANGED <<queue, in_flight, running>>
    /\ PanelUnchanged
    /\ AppUnchanged

\* a middleware handling the action in flight dispatches a further action
MiddlewareDispatch ==
    /\ pc = "dispatch"
    /\ Enqueue("MiddlewareDispatch", "middleware", FALSE)
    /\ UNCHANGED <<in_flight, running, pc>>
    /\ PanelUnchanged
    /\ AppUnchanged

\* store.dispatch(action) returns: the action has been applied; Quit stops the app
StoreDispatch ==
    /\ pc = "dispatch"
    /\ in_flight # None
    /\ running' = (running /\ ~Unwrap(in_flight).quit)
    /\ in_flight' = None
    /\ pc' = "budget"
    /\ Step("StoreDispatch", <<>>, in_flight, FALSE)
    /\ UNCHANGED queue
    /\ PanelUnchanged
    /\ AppUnchanged

\* start.elapsed() < ACTION_BUDGET: the drain goes on
BudgetLeft ==
    /\ pc = "budget"
    /\ pc' = "drain"
    /\ Step("BudgetLeft", <<>>, <<>>, FALSE)
    /\ UNCHANGED <<queue, in_flight, running>>
    /\ PanelUnchanged
    /\ AppUnchanged

\* start.elapsed() >= ACTION_BUDGET: break, the remaining actions stay queued
BudgetUsed ==
    /\ pc = "budget"
    /\ pc' = "render"
    /\ Step("BudgetUsed", <<>>, <<>>, queue # <<>>)
    /\ UNCHANGED <<queue, in_flight, running>>
    /\ PanelUnchanged
    /\ AppUnchanged

\* terminal.draw, then the check of state.running
Render ==
    /\ pc = "render"
    /\ pc' = IF running THEN "poll" ELSE "stopped"
    /\ Step("Render", <<>>, <<>>, FALSE)
    /\ UNCHANGED <<queue, in_flight, running>>
    /\ PanelUnchanged
    /\ AppUnchanged

\* a key press: the keyboard middleware dispatches the action bound to the key
PollKey ==
    /\ pc = "poll"
    /\ \E quit \in BOOLEAN : Enqueue("PollKey", "keyboard", quit)
    /\ pc' = "drain"
    /\ UNCHANGED <<in_flight, running>>
    /\ PanelUnchanged
    /\ AppUnchanged

\* event::poll timed out after 100 ms
PollTimeout ==
    /\ pc = "poll"
    /\ pc' = "drain"
    /\ Step("PollTimeout", <<>>, <<>>, FALSE)
    /\ UNCHANGED <<queue, in_flight, running>>
    /\ PanelUnchanged
    /\ AppUnchanged

NextQueue ==
    \/ Bootstrap
    \/ BackgroundDispatch
    \/ Pop
    \/ DrainEmpty
    \/ MiddlewareDispatch
    \/ StoreDispatch
    \/ BudgetLeft
    \/ BudgetUsed
    \/ Render
    \/ PollKey
    \/ PollTimeout

SpecQueue == InitQueue /\ [][NextQueue]_vars

----------------------------------------------------------------------------
(* The view stack: the root reducers of reducer.rs and app_reducer.rs (SpecViews) *)

\* the views an action may carry: the splash view, the main view and two overlays
ViewPool ==
    {[id |-> "Splash", floating |-> FALSE], [id |-> "Main", floating |-> FALSE],
     [id |-> "DebugConsole", floating |-> TRUE],
     [id |-> "CommandPalette", floating |-> TRUE]}

\* View::view_id
view_id(view) == view.id

\* View::is_floating: a method of the trait, answered by each view for itself
is_floating(view) == view.floating

\* MainView::new()
MainView == [id |-> "Main", floating |-> FALSE]

\* a variant of is_duplicate that looks for the view anywhere on the stack
is_duplicate_anywhere(stack, new_view) ==
    \E i \in 1..Len(stack) : view_id(stack[i]) = view_id(new_view)

\* is_duplicate: the top view has the id of the new view
is_duplicate(stack, new_view) ==
    IF stack = <<>> THEN FALSE ELSE view_id(stack[Len(stack)]) = view_id(new_view)

\* a variant of close_top that pops whatever the stack holds
close_top_always(state) ==
    IF state.view_stack # <<>>
    THEN [state EXCEPT !.view_stack = SubSeq(@, 1, Len(@) - 1)]
    ELSE [state EXCEPT !.running = FALSE]

\* the GlobalClose arm: pop the top view, or quit when at most one view is left
close_top(state) ==
    IF Len(state.view_stack) > 1
    THEN [state EXCEPT !.view_stack = SubSeq(@, 1, Len(@) - 1)]
    ELSE [state EXCEPT !.running = FALSE]

\* reduce of reducer.rs, on the view stack and the running flag
reduce(state, action) ==
    CASE action.type = "GlobalQuit" -> [state EXCEPT !.running = FALSE]
      [] action.type = "GlobalActivateView" ->
            IF is_floating(action.view)
            THEN IF is_duplicate(state.view_stack, action.view) THEN state
                 ELSE [state EXCEPT !.view_stack = Append(@, action.view)]
            ELSE [state EXCEPT !.view_stack = <<action.view>>]
      [] action.type = "GlobalClose" -> close_top(state)
      [] action.type = "BootstrapEnd" -> [state EXCEPT !.view_stack = <<MainView>>]
      [] OTHER -> state

\* reduce of app_reducer.rs, on the view stack and the running flag
app_reducer_reduce(state, action) ==
    CASE action.type = "GlobalQuit" -> [state EXCEPT !.running = FALSE]
      [] action.type = "PushView" ->
            IF is_duplicate(state.view_stack, action.view)
            THEN [state EXCEPT !.view_stack = SubSeq(@, 1, Len(@) - 1)]
            ELSE [state EXCEPT !.view_stack = Append(@, action.view)]
      [] action.type = "ReplaceView" -> [state EXCEPT !.view_stack = <<action.view>>]
      [] action.type \in {"GlobalClose", "CommandPaletteClose", "CommandPaletteExecute",
                          "KeyBindingsViewClose"} -> close_top(state)
      [] action.type = "BootstrapEnd" -> [state EXCEPT !.view_stack = <<MainView>>]
      [] OTHER -> state

\* the part of AppState the view actions work on
Views == [view_stack |-> view_stack, running |-> running]

\* everything but the view stack and the running flag stays
ViewsFrame ==
    /\ PanelUnchanged
    /\ UNCHANGED <<queue, in_flight, pc, repositories, add_repo_form, octocrab,
                   tick_thread_started, tick_threads, tasks>>

InitViews ==
    /\ PanelIs(NoPanel)
    /\ LoopIdle
    /\ AppIdle
    /\ last = [action |-> [type |-> "Init"], before |-> [view_stack |-> <<>>, running |-> TRUE]]

\* the store applies action with the root reducer r
ApplyView(r, action) ==
    /\ view_stack' = r.view_stack
    /\ running' = r.running
    /\ last' = [action |-> action, before |-> Views]
    /\ ViewsFrame

GlobalActivateView ==
    \E v \in ViewPool :
        /\ Len(view_stack) < MaxStack
        /\ ApplyView(reduce(Views, [type |-> "GlobalActivateView", view |-> v]),
                     [type |-> "GlobalActivateView", view |-> v])

PushView ==
    \E v \in ViewPool :
        /\ Len(view_stack) < MaxStack
        /\ ApplyView(app_reducer_reduce(Views, [type |-> "PushView", view |-> v]),
                     [type |-> "PushView", view |-> v])

ReplaceView ==
    \E v \in ViewPool :
        /\ ApplyView(app_reducer_reduce(Views, [type |-> "ReplaceView", view |-> v]),
                     [type |-> "ReplaceView", view |-> v])

GlobalClose ==
    /\ reduce(Views, [type |-> "GlobalClose"])
            = app_reducer_reduce(Views, [type |-> "GlobalClose"])
    /\ ApplyView(app_reducer_reduce(Views, [type |-> "GlobalClose"]),
                 [type |-> "GlobalClose"])

CommandPaletteClose ==
    /\ ApplyView(app_reducer_reduce(Views, [type |-> "CommandPaletteClose"]),
                 [type |-> "CommandPaletteClose"])

BootstrapEnd ==
    /\ reduce(Views, [type |-> "BootstrapEnd"])
            = app_reducer_reduce(Views, [type |-> "BootstrapEnd"])
    /\ ApplyView(app_reducer_reduce(Views, [type |-> "BootstrapEnd"]),
                 [type |-> "BootstrapEnd"])

GlobalQuit ==
    /\ running
    /\ ApplyView(reduce(Views, [type |-> "GlobalQuit"]), [type |-> "GlobalQuit"])

NextViews ==
    \/ GlobalActivateView
    \/ PushView
    \/ ReplaceView
    \/ GlobalClose
    \/ CommandPaletteClose
    \/ BootstrapEnd
    \/ GlobalQuit

SpecViews == InitViews /\ [][NextViews]_vars

----------------------------------------------------------------------------
(* Adding repositories and starting their loads: PullRequestMiddleware and the  *)
(* repository arms of app_reducer.rs, action by action off the queue (SpecLoad) *)

\* a variant of start_idx that counts from one
start_idx_from_one(repos) == Len(repos) + 1

\* let start_idx = state.main_view.repositories.len()
start_idx(repos) == Len(repos)

\* the PrLoadStart actions the middleware dispatches for repos, first index start;
\* src and repo say what the action was dispatched for
LoadStarts(repos, start) ==
    [i \in 1..Len(repos) |->
        [type |-> "PrLoadStart", idx |-> start + (i - 1), src |-> "add", repo |-> repos[i]]]

\* PullRequestMiddleware::handle: the actions it dispatches for action, given the
\* state the store holds at that moment
pull_request_dispatches(action) ==
    CASE action.type = "RepositoryAddBulk" ->
            IF ~octocrab THEN <<>>
            ELSE LoadStarts(action.repos, start_idx(repositories))
      [] action.type = "AddRepoConfirm" ->
            IF ~octocrab \/ add_repo_form = None THEN <<>>
            ELSE LoadStarts(add_repo_form, start_idx(repositories))
      [] action.type = "PrLoadStart" ->
            IF ~octocrab
            THEN <<[type |-> "PrLoadError", idx |-> action.idx]>>
            ELSE <<>>
      [] action.type = "PrRefresh" ->
            IF ~octocrab THEN <<>>
            ELSE <<[type |-> "PrLoadStart", idx |-> 0, src |-> "refresh", repo |-> 0]>>
      [] OTHER -> <<>>

\* state.main_view.repositories.get(repo_idx) of the PrLoadStart arm: the
\* repository the load is started for, if the client and the repository exist
load_target(action) ==
    IF octocrab /\ action.idx < Len(repositories)
    THEN Some(repositories[action.idx + 1])
    ELSE None

\* the repository arms of reduce in app_reducer.rs, and the form reducer
reduce_repositories(state, action) ==
    CASE action.type = "RepositoryAddBulk" ->
            [state EXCEPT !.repositories = @ \o action.repos]
      [] action.type = "AddRepoConfirm" ->
            IF state.add_repo_form # None
            THEN [repositories |-> Append(state.repositories, Unwrap(state.add_repo_form)),
                  add_repo_form |-> None]
            ELSE state
      [] action.type = "AddRepoChar" -> [state EXCEPT !.add_repo_form = Some(action.repo)]
      [] action.type = "AddRepoClose" -> [state EXCEPT !.add_repo_form = None]
      [] OTHER -> state

\* the repositories named so far, each by a number of its own
Named == last.named

LoadFrame ==
    /\ PanelUnchanged
    /\ UNCHANGED <<in_flight, running, pc, view_stack, tick_thread_started,
                   tick_threads, tasks>>

InitLoad ==
    /\ PanelIs(NoPanel)
    /\ LoopIdle
    /\ AppIdle
    /\ last = [action |-> [type |-> "Init"], target |-> None, named |-> 0]

\* an action is put on the queue from outside the middleware
Arrive(action, named) ==
    /\ Len(queue) < MaxActions
    /\ queue' = dispatch(queue, action)
    /\ last' = [action |-> [type |-> "Arrive"], target |-> None, named |-> named]
    /\ UNCHANGED <<repositories, add_repo_form, octocrab>>
    /\ LoadFrame

\* run_app dispatches BootstrapStart
ArriveBootstrapStart ==
    /\ Arrive([type |-> "BootstrapStart"], Named)

\* RepositoryMiddleware dispatches RepositoryAddBulk with the recent repositories
ArriveAddBulk ==
    \E n \in 1..2 :
        /\ Named + n <= MaxRepos
        /\ Arrive([type |-> "RepositoryAddBulk",
                   repos |-> [i \in 1..n |-> Named + i]], Named + n)

\* the form gets a character
ArriveAddRepoChar ==
    /\ Named < MaxRepos
    /\ Arrive([type |-> "AddRepoChar", repo |-> Named + 1], Named + 1)

\* RepositoryMiddleware dispatches AddRepoConfirm / AddRepoClose
ArriveAddRepoConfirm ==
    /\ Arrive([type |-> "AddRepoConfirm"], Named)

ArriveAddRepoClose ==
    /\ Arrive([type |-> "AddRepoClose"], Named)

ArrivePrRefresh ==
    /\ Arrive([type |-> "PrRefresh"], Named)

\* store.dispatch of the oldest action: the middleware sees the state as it is,
\* then the reducer applies the action; client_ok is what initialize_octocrab
\* gets on BootstrapStart
Dispatch(client_ok) ==
    /\ queue # <<>>
    /\ \E a \in {Unwrap(pop(queue).action)} :
          /\ Len(pop(queue).queue) + Len(pull_request_dispatches(a)) <= MaxActions + 2
          /\ queue' = pop(queue).queue \o pull_request_dispatches(a)
          /\ octocrab' = IF a.type = "BootstrapStart" THEN octocrab \/ client_ok
                         ELSE octocrab
          /\ \E r \in {reduce_repositories([repositories |-> repositories,
                                               add_repo_form |-> add_repo_form], a)} :
                /\ repositories' = r.repositories
                /\ add_repo_form' = r.add_repo_form
          /\ last' = [action |-> a,
                      target |-> IF a.type = "PrLoadStart" THEN load_target(a) ELSE None,
                      named |-> Named]
    /\ LoadFrame

StoreDispatchLoad ==
    \E client_ok \in BOOLEAN : Dispatch(client_ok)

NextLoad ==
    \/ ArriveBootstrapStart
    \/ ArriveAddBulk
    \/ ArriveAddRepoChar
    \/ ArriveAddRepoConfirm
    \/ ArriveAddRepoClose
    \/ ArrivePrRefresh
    \/ StoreDispatchLoad

SpecLoad == InitLoad /\ [][NextLoad]_vars

----------------------------------------------------------------------------
(* The tick thread of BootstrapMiddleware: the middleware's Start and End arms  *)
(* and the loop of each spawned thread, step by step (SpecTick, SpecTickLive)   *)

\* a variant of should_continue that never sees the flag cleared
should_continue_always(started) == TRUE

\* *should_continue.lock().unwrap(): the thread goes on while the flag is set
should_continue(started) == started

\* the threads that have not left their loop
Alive == {t \in 1..Len(tick_threads) : tick_threads[t] # "done"}

TickFrame ==
    /\ PanelUnchanged
    /\ UNCHANGED <<in_flight, running, pc, view_stack, repositories, add_repo_form,
                   octocrab, tasks>>

InitTick ==
    /\ PanelIs(NoPanel)
    /\ LoopIdle
    /\ AppIdle
    /\ last = [action |-> "init", thread |-> 0]

\* BootstrapAction::Start: if the flag is not set, set it and spawn a thread
HandleStart ==
    /\ tick_thread_started \/ Len(tick_threads) < MaxThreads
    /\ tick_thread_started' = TRUE
    /\ tick_threads' = IF tick_thread_started THEN tick_threads
                       ELSE Append(tick_threads, "check")
    /\ last' = [action |-> "Start", thread |-> 0]
    /\ UNCHANGED queue
    /\ TickFrame

\* BootstrapAction::End: clear the flag
HandleEnd ==
    /\ tick_thread_started' = FALSE
    /\ last' = [action |-> "End", thread |-> 0]
    /\ UNCHANGED <<tick_threads, queue>>
    /\ TickFrame

\* thread t at the top of its loop: break if the flag is cleared
TickCheck(t) ==
    /\ tick_threads[t] = "check"
    /\ tick_threads' = [tick_threads EXCEPT ![t] =
            IF should_continue(tick_thread_started) THEN "wait" ELSE "done"]
    /\ last' = [action |-> "check", thread |-> t]
    /\ UNCHANGED <<tick_thread_started, queue>>
    /\ TickFrame

\* thread t finds the tick rate elapsed and dispatches Tick
TickDispatch(t) ==
    /\ tick_threads[t] = "wait"
    /\ Len(queue) < MaxTicks
    /\ queue' = dispatch(queue, [type |-> "Tick", thread |-> t])
    /\ tick_threads' = [tick_threads EXCEPT ![t] = "check"]
    /\ last' = [action |-> "tick", thread |-> t]
    /\ UNCHANGED tick_thread_started
    /\ TickFrame

\* thread t sleeps for the rest of the tick rate
TickSleep(t) ==
    /\ tick_threads[t] = "wait"
    /\ tick_threads' = [tick_threads EXCEPT ![t] = "check"]
    /\ last' = [action |-> "sleep", thread |-> t]
    /\ UNCHANGED <<tick_thread_started, queue>>
    /\ TickFrame

\* one step of thread t
ThreadStep(t) ==
    \/ TickCheck(t)
    \/ TickDispatch(t)
    \/ TickSleep(t)

\* the main loop takes the oldest Tick off the queue
PopTick ==
    /\ queue # <<>>
    /\ queue' = pop(queue).queue
    /\ last' = [action |-> "pop", thread |-> 0]
    /\ UNCHANGED <<tick_thread_started, tick_threads>>
    /\ TickFrame

NextTick ==
    \/ HandleStart
    \/ HandleEnd
    \/ \E t \in 1..Len(tick_threads) : TickCheck(t)
    \/ \E t \in 1..Len(tick_threads) : TickDispatch(t)
    \/ \E t \in 1..Len(tick_threads) : TickSleep(t)
    \/ PopTick

SpecTick == InitTick /\ [][NextTick]_vars

\* every spawned thread is scheduled again and again
TickFairness ==
    \A t \in 1..MaxThreads : WF_vars(t \in 1..Len(tick_threads) /\ ThreadStep(t))

SpecTickLive == InitTick /\ [][NextTick]_vars /\ TickFairness

----------------------------------------------------------------------------
(* Pull request operations: the request arms of GitHubMiddleware::handle, target *)
(* by target, and the tasks they spawn (SpecGitHub)                              *)

\* the operations: PrMergeRequest, PrRebaseRequest, PrApproveRequest, PrCloseRequest
Operations == {"Merge", "Rebase", "Approve", "Close"}

\* what get_target_prs may return: the selected pull requests, or the one under
\* the cursor, or nothing
TargetLists == {<<>>, <<1>>, <<2, 1>>}

\* what the API call of an operation may come back with
Outcomes(kind) ==
    IF kind = "Merge" THEN {"merged", "not_merged", "err"} ELSE {"ok", "err"}

\* a variant of target_steps that spawns the task before it dispatches Start
target_steps_spawn_first == <<"spawn", "dispatch_start">>

\* what the loop over the targets does for one target, in this order
target_steps == <<"dispatch_start", "spawn">>

\* get_repo_info: the repository at repo_idx, if there is one
get_repo_info(repos, repo_idx) ==
    IF repo_idx < Len(repos) THEN Some(repos[repo_idx + 1]) ELSE None

\* a variant of task_result that asks for a refresh and reports nothing on success
task_result_refresh_only(task, outcome) ==
    IF outcome \in {"merged", "ok"}
    THEN <<[type |-> "PrRefresh", kind |-> task.kind, pr |-> task.pr, task |-> task.id]>>
    ELSE <<[type |-> "Error", kind |-> task.kind, pr |-> task.pr, task |-> task.id]>>

\* the match in the spawned task: what it dispatches when the call has come back
task_result(task, outcome) ==
    IF outcome \in {"merged", "ok"}
    THEN <<[type |-> "Success", kind |-> task.kind, pr |-> task.pr, task |-> task.id]>>
         \o (IF task.kind = "Approve" THEN <<>>
             ELSE <<[type |-> "PrRefresh", kind |-> task.kind, pr |-> task.pr,
                     task |-> task.id]>>)
    ELSE <<[type |-> "Error", kind |-> task.kind, pr |-> task.pr, task |-> task.id]>>

GitHubFrame ==
    /\ PanelUnchanged
    /\ UNCHANGED <<running, pc, view_stack, add_repo_form, octocrab,
                   tick_thread_started, tick_threads>>

InitGitHub ==
    /\ PanelIs(NoPanel)
    /\ queue = <<>>
    /\ in_flight = None
    /\ running = TRUE
    /\ pc = "start"
    /\ view_stack = <<MainView>>
    /\ repositories \in {<<>>, <<1>>}
    /\ add_repo_form = None
    /\ octocrab \in BOOLEAN
    /\ tick_thread_started = FALSE
    /\ tick_threads = <<>>
    /\ tasks = <<>>
    /\ last = [action |-> "init", enqueued |-> <<>>]

\* dispatcher.dispatch of acts, remembered in the history in the order dispatched
Dispatched(name, acts) ==
    /\ queue' = queue \o acts
    /\ last' = [action |-> name, enqueued |-> last.enqueued \o acts]

\* the middleware takes up a request: without a client or without targets the
\* action is consumed and nothing else happens
Request ==
    \E kind \in Operations, targets \in TargetLists :
        /\ in_flight = None
        /\ Len(tasks) + Len(targets) <= MaxTasks
        /\ in_flight' = IF octocrab /\ targets # <<>>
                        THEN Some([kind |-> kind, targets |-> targets, pos |-> 1,
                                   step |-> 1, base |-> Len(tasks)])
                        ELSE None
        /\ last' = [last EXCEPT !.action = "Request"]
        /\ UNCHANGED <<queue, tasks, repositories>>
        /\ GitHubFrame

\* the request in flight after one more step for its current target
Advance(r) ==
    IF r.step < Len(target_steps) THEN Some([r EXCEPT !.step = @ + 1])
    ELSE IF r.pos < Len(r.targets) THEN Some([r EXCEPT !.pos = @ + 1, !.step = 1])
    ELSE None

\* a target whose repository is not in the state is passed over
SkipTarget ==
    /\ in_flight # None
    /\ get_repo_info(repositories, 0) = None
    /\ \E r \in {Unwrap(in_flight)} :
          in_flight' = IF r.pos < Len(r.targets) THEN Some([r EXCEPT !.pos = @ + 1])
                       ELSE None
    /\ last' = [last EXCEPT !.action = "SkipTarget"]
    /\ UNCHANGED <<queue, tasks, repositories>>
    /\ GitHubFrame

\* dispatcher.dispatch(Action::Pr...Start(repo_idx, pr_number))
DispatchStart ==
    /\ in_flight # None
    /\ get_repo_info(repositories, 0) # None
    /\ \E r \in {Unwrap(in_flight)} :
          /\ target_steps[r.step] = "dispatch_start"
          /\ Dispatched("DispatchStart",
                        <<[type |-> "Start", kind |-> r.kind, pr |-> r.targets[r.pos],
                           task |-> r.base + r.pos]>>)
          /\ in_flight' = Advance(r)
    /\ UNCHANGED <<tasks, repositories>>
    /\ GitHubFrame

\* self.runtime.spawn(async move { ... }): the call is under way
Spawn ==
    /\ in_flight # None
    /\ get_repo_info(repositories, 0) # None
    /\ \E r \in {Unwrap(in_flight)} :
          /\ target_steps[r.step] = "spawn"
          /\ tasks' = Append(tasks, [id |-> r.base + r.pos, kind |-> r.kind,
                                     pr |-> r.targets[r.pos], state |-> "calling"])
          /\ in_flight' = Advance(r)
    /\ last' = [last EXCEPT !.action = "Spawn"]
    /\ UNCHANGED <<queue, repositories>>
    /\ GitHubFrame

\* the call of a task comes back and the task dispatches its result
Complete ==
    \E t \in 1..Len(tasks) :
        /\ tasks[t].state = "calling"
        /\ \E outcome \in Outcomes(tasks[t].kind) :
              Dispatched("Complete", task_result(tasks[t], outcome))
        /\ tasks' = [tasks EXCEPT ![t].state = "done"]
        /\ UNCHANGED <<in_flight, repositories>>
        /\ GitHubFrame

\* the main loop takes the oldest action off the queue
PopResult ==
    /\ in_flight = None
    /\ queue # <<>>
    /\ queue' = pop(queue).queue
    /\ last' = [last EXCEPT !.action = "PopResult"]
    /\ UNCHANGED <<in_flight, tasks, repositories>>
    /\ GitHubFrame

NextGitHub ==
    \/ Request
    \/ SkipTarget
    \/ DispatchStart
    \/ Spawn
    \/ Complete
    \/ PopResult

SpecGitHub == InitGitHub /\ [][NextGitHub]_vars

----------------------------------------------------------------------------
(* The file tree on its own: built from a file list, then toggled *)

NavIdle ==
    /\ inner = FALSE
    /\ load_state = "idle"
    /\ file_tree_focused = TRUE
    /\ cursor_line = 0
    /\ selected_file = 0
    /\ scroll_offset = 0
    /\ viewport_height = 0
    /\ visual_anchor = None
    /\ current_file = None
    /\ comment_editor = None
    /\ pending_comments = <<>>
    /\ show_review_popup = FALSE
    /\ selected_review_event = "Comment"
    /\ LoopIdle
    /\ AppIdle

NavUnchanged ==
    /\ UNCHANGED <<inner, load_state, file_tree_focused, cursor_line, selected_file,
                   scroll_offset, viewport_height, visual_anchor, current_file,
                   comment_editor, pending_comments, show_review_popup,
                   selected_review_event, queue, in_flight, running, pc>>
    /\ AppUnchanged

NoAction == [action |-> "init", row |-> 0, target |-> <<>>, ok |-> FALSE,
             before |-> directory(<<>>)]

InitTree ==
    /\ files \in FileLists(MaxFiles)
    /\ file_tree = from_files(files)
    /\ NavIdle
    /\ last = NoAction

\* node.toggle() on the node behind row r of the flattened tree
TreeToggle(r) ==
    /\ r \in 1..Len(flatten(file_tree))
    /\ file_tree' = ApplyAt(file_tree, RowNodes(file_tree, <<>>)[r])
    /\ last' = [action |-> "toggle", row |-> r, target |-> <<>>, ok |-> FALSE,
                before |-> file_tree]
    /\ UNCHANGED files
    /\ NavUnchanged

\* what toggle_at_path may be asked for: the name and the full path of every node
ToggleTargets(tree) ==
    {NodeAt(tree, p).name : p \in Nodes(tree)} \cup {FullPath(tree, p) : p \in Nodes(tree)}

\* root.toggle_at_path(t)
TreeToggleAtPath(t) ==
    /\ t \in ToggleTargets(file_tree)
    /\ LET r == toggle_at_path(file_tree, t)
       IN /\ file_tree' = r.node
          /\ last' = [action |-> "toggle_at_path", row |-> 0, target |-> t,
                      ok |-> r.ok, before |-> file_tree]
    /\ UNCHANGED files
    /\ NavUnchanged

NextTree ==
    \/ \E r \in 1..Len(flatten(file_tree)) : TreeToggle(r)
    \/ \E t \in ToggleTargets(file_tree) : TreeToggleAtPath(t)

SpecTree == InitTree /\ [][NextTree]_vars

----------------------------------------------------------------------------
(* Building a tree: the steps of from_files and calculate_stats (SpecBuild) *)

\* the file list of test_file_tree_construction
ExampleFiles ==
    <<FileDiff(<<"s", "r", "c", "/", "m", "a", "i", "n", ".", "r", "s">>, "Modified", 10, 5, <<>>),
      FileDiff(<<"s", "r", "c", "/", "l", "i", "b", ".", "r", "s">>, "Modified", 3, 1, <<>>),
      FileDiff(<<"t", "e", "s", "t", "s", "/", "t", "e", "s", "t", ".", "r", "s">>, "Modified", 20, 0, <<>>),
      FileDiff(<<"C", "a", "r", "g", "o", ".", "t", "o", "m", "l">>, "Modified", 2, 1, <<>>)>>

\* from_files after its loop over the files, before root.sort_recursive()
InitBuild ==
    /\ files \in FileLists(MaxFiles) \cup {ExampleFiles}
    /\ file_tree = InsertAll(directory(<<>>), files, 1)
    /\ NavIdle
    /\ last = [action |-> "insert_path", before |-> directory(<<>>), sorted |-> FALSE]

\* root.sort_recursive()
SortTree ==
    /\ file_tree' = sort_recursive(file_tree)
    /\ last' = [action |-> "sort_recursive", before |-> file_tree, sorted |-> TRUE]
    /\ UNCHANGED files
    /\ NavUnchanged

\* root.calculate_stats()
CalculateStats ==
    /\ file_tree' = calculate_stats(file_tree).node
    /\ last' = [action |-> "calculate_stats", before |-> file_tree, sorted |-> last.sorted]
    /\ UNCHANGED files
    /\ NavUnchanged

NextBuild ==
    \/ SortTree
    \/ CalculateStats

SpecBuild == InitBuild /\ [][NextBuild]_vars

----------------------------------------------------------------------------
(* Flattening the hunks of a file (SpecHunks) *)

\* the longest list of hunks a file is given
MaxHunks == 3

\* a hunk without lines
EmptyHunk == Hunk(<<>>)

\* the hunks files are made of
HunkPool == <<SampleHunk, OtherHunk, TinyHunk, EmptyHunk>>

\* the lists of at most n hunks of the pool
HunkLists(n) ==
    UNION {{[i \in 1..k |-> HunkPool[h[i]]] : h \in [1..k -> 1..Len(HunkPool)]} : k \in 0..n}

\* one file with some list of hunks, not drawn yet
InitHunks ==
    /\ \E hunks \in HunkLists(MaxHunks) :
          files = <<FileDiff(<<"f">>, "Modified", 0, 0, hunks)>>
    /\ file_tree = from_files(files)
    /\ NavIdle
    /\ last = [action |-> "init", rows |-> <<>>]

\* DiffContentWidget::render: display_info = flatten_hunk_info(&file.hunks)
FlattenHunks ==
    /\ last' = [action |-> "flatten_hunk_info", rows |-> flatten_hunk_info(files[1].hunks)]
    /\ UNCHANGED <<files, file_tree>>
    /\ NavUnchanged

NextHunks == FlattenHunks

SpecHunks == InitHunks /\ [][NextHunks]_vars

----------------------------------------------------------------------------
(* Claims about the diff viewer panel (Spec) *)

\* the viewer state now and the one the last action was applied to
Now == Panel.st
Before == last.before.st

\* the last action was one of types, applied to a loaded viewer
Acted(types) == last.action.type \in types /\ last.before.inner /\ inner

\* i is a position of a sequence of len elements, or the sequence is empty
ValidIndex(i, len) == len > 0 => (0 <= i /\ i < len)

\* C1: after any sequence of actions the tree cursor, the content cursor, the
\* content scroll offset and both ends of the visual selection are positions of
\* their pane's flattened sequence whenever that sequence is not empty.
C1_IndicesInRange ==
    inner =>
        LET tree_len == Len(flatten(file_tree))
            content_len == Len(content_rows(Now))
        IN /\ ValidIndex(tree_cursor(Now), tree_len)
           /\ ValidIndex(selected_file, tree_len)
           /\ ValidIndex(content_cursor(Now), content_len)
           /\ ValidIndex(cursor_line, IF file_tree_focused THEN tree_len ELSE content_len)
           /\ ValidIndex(scroll_offset, content_len)
           /\ visual_selection(Now) # None =>
                /\ ValidIndex(Unwrap(visual_selection(Now))[1], content_len)
                /\ ValidIndex(Unwrap(visual_selection(Now))[2], content_len)

\* a file switch away from a scrolled file to a shorter one, the selection's anchor
\* having been beyond the new file's last row
C1_Witness ==
    /\ inner /\ last.before.inner
    /\ visual_anchor # None /\ Before.visual_anchor # None
    /\ Len(content_rows(Now)) > 0
    /\ Unwrap(Before.visual_anchor) >= Len(content_rows(Now))
    /\ Before.scroll_offset > 0

\* the position of the node the tree cursor was on before the last action
CursorNodeBefore == RowNodes(Before.file_tree, <<>>)[Before.cursor_line + 1]

\* the last action was a toggle that collapsed a directory strictly above the node
\* under the tree cursor
CollapsedAnAncestor ==
    /\ Acted({"Toggle"})
    /\ Before.file_tree_focused
    /\ Before.cursor_line < Len(flatten(Before.file_tree))
    /\ \E d \in Nodes(Before.file_tree) :
            /\ IsStrictPrefix(d, CursorNodeBefore)
            /\ NodeAt(Before.file_tree, d).expanded
            /\ ~NodeAt(file_tree, d).expanded

\* C2: when a toggle collapses an ancestor of the node under the tree cursor, the
\* cursor afterwards is on a row of the new flattened tree: the node's nearest
\* ancestor that still has a row, never an index beyond the new length.
C2_CursorOnVisibleAncestor ==
    CollapsedAnAncestor =>
        LET N == RowNodes(file_tree, <<>>)
        IN /\ tree_cursor(Now) < Len(flatten(file_tree))
           /\ tree_cursor(Now) < Len(N)
           /\ IsPrefix(N[tree_cursor(Now) + 1], CursorNodeBefore)
           /\ \A i \in 1..Len(N) :
                IsPrefix(N[i], CursorNodeBefore) => Len(N[i]) <= Len(N[tree_cursor(Now) + 1])

\* the cursor moved up to the collapsed ancestor, in a tree that has rows after it
C2_Witness ==
    /\ CollapsedAnAncestor
    /\ tree_cursor(Now) < Before.cursor_line
    /\ Len(flatten(file_tree)) > tree_cursor(Now) + 1

\* offset of hunk h's header in the flattening of hunks (h from 0)
RECURSIVE HeaderOffset(_, _)
HeaderOffset(hunks, h) ==
    IF h = 0 THEN 0 ELSE HeaderOffset(hunks, h - 1) + 1 + Len(hunks[h].lines)

\* rows is the hunk/line flattening of hunks: a header row then the lines of each
\* hunk, in order, and nothing else
IsFlatteningOf(rows, hunks) ==
    /\ Len(rows) = HeaderOffset(hunks, Len(hunks))
    /\ \A h \in 0..(Len(hunks) - 1) :
          /\ rows[HeaderOffset(hunks, h) + 1] = [hunk_idx |-> h, line_idx |-> None]
          /\ \A j \in 0..(Len(hunks[h + 1].lines) - 1) :
                rows[HeaderOffset(hunks, h) + 2 + j] = [hunk_idx |-> h, line_idx |-> Some(j)]

\* the last action changed which file is selected
FileChanged ==
    /\ inner /\ last.before.inner
    /\ last.action.type # "Init"
    /\ current_file # None
    /\ current_file # Before.current_file

\* C3: right after the selected file changes, the content cursor is 0, the scroll
\* offset is 0 and the content rows are the hunk/line flattening of the new file.
C3_FileSwitchResets ==
    FileChanged =>
        /\ content_cursor(Now) = 0
        /\ scroll_offset = 0
        /\ current_file_of(Now) # None
        /\ Unwrap(current_file_of(Now)).path = Unwrap(current_file)
        /\ IsFlatteningOf(content_rows(Now), Unwrap(current_file_of(Now)).hunks)

\* a switch between two files with rows, away from a scrolled content pane
C3_Witness ==
    /\ FileChanged
    /\ Before.current_file # None
    /\ Before.scroll_offset > 0
    /\ Len(content_rows(Now)) > 0
    /\ Len(content_rows(Now)) # Len(content_rows(Before))

\* the rows of the focused pane of a viewer state
FocusedLen(st) ==
    IF st.file_tree_focused THEN Len(flatten(st.file_tree)) ELSE Len(content_rows(st))

\* C4: NavigateDown / NavigateUp changes the focused pane's cursor by exactly one
\* when that stays inside the pane's rows and leaves it as it is otherwise (last
\* row, first row, no rows); the focus stays.
C4_VerticalMove ==
    Acted({"NavigateDown", "NavigateUp"}) =>
        LET delta == IF last.action.type = "NavigateDown" THEN 1 ELSE 0 - 1
            want == Before.cursor_line + delta
        IN /\ file_tree_focused = Before.file_tree_focused
           /\ cursor_line = IF 0 <= want /\ want < FocusedLen(Before)
                            THEN want ELSE Before.cursor_line
           /\ file_tree_focused => tree_cursor(Now) = cursor_line
           /\ ~file_tree_focused => content_cursor(Now) = cursor_line

\* NavigateDown on the last row of the content pane, which stayed there
C4_Witness ==
    /\ Acted({"NavigateDown"})
    /\ ~Before.file_tree_focused
    /\ FocusedLen(Before) >= 2
    /\ Before.cursor_line = FocusedLen(Before) - 1
    /\ cursor_line = Before.cursor_line

\* the actions that move the cursor
CursorMoves ==
    {"NavigateDown", "NavigateUp", "NavigateToTop", "NavigateToBottom", "PageDown", "PageUp"}

\* those that move the cursor alone; a page moves the scroll offset as well
StepMoves ==
    {"NavigateDown", "NavigateUp", "NavigateToTop", "NavigateToBottom"}

\* the last action was one of types and moved the content cursor of a viewer that
\* shows at least one row
MovedInContent(types) ==
    /\ Acted(types)
    /\ ~file_tree_focused
    /\ viewport_height >= 1
    /\ Len(content_rows(Now)) > 0

\* the cursor is inside the window the scroll offset had before the last action
InsideOldWindow ==
    /\ Before.scroll_offset <= cursor_line
    /\ cursor_line < Before.scroll_offset + viewport_height

C6_SelectionNormalized ==
    (inner /\ visual_anchor # None) =>
        LET sel == visual_selection(Now)
            a == Unwrap(visual_anchor)
            c == content_cursor(Now)
        IN /\ sel # None
           /\ Unwrap(sel)[1] <= Unwrap(sel)[2]
           /\ Unwrap(sel) = <<IF a < c THEN a ELSE c, IF a < c THEN c ELSE a>>
           /\ \A i \in 0..(Len(content_rows(Now)) - 1) :
                in_selection(sel, i) <=> ((a <= i /\ i <= c) \/ (c <= i /\ i <= a))

\* the cursor moved above the anchor: for example anchor 3, cursor 1
C6_Witness ==
    /\ inner /\ visual_anchor # None
    /\ ~file_tree_focused
    /\ content_cursor(Now) + 2 <= Unwrap(visual_anchor)
    /\ Unwrap(visual_selection(Now)) = <<content_cursor(Now), Unwrap(visual_anchor)>>

\* C16: NavigateLeft, NavigateRight and SwitchPane change only which pane is
\* focused: the tree pane's cursor and the content pane's cursor, as the panes are
\* given them, are after the action what they were before it.
C16_FocusSwitchKeepsCursors ==
    Acted({"NavigateLeft", "NavigateRight", "SwitchPane"}) =>
        /\ tree_cursor(Now) = tree_cursor(Before)
        /\ content_cursor(Now) = content_cursor(Before)

RowPayloads(st) ==
    LET f == current_file_of(st)
        rows == content_rows(st)
    IN [k \in 1..Len(rows) |->
            IF rows[k].line_idx = None THEN [kind |-> "Header"]
            ELSE Unwrap(f).hunks[rows[k].hunk_idx + 1].lines[Unwrap(rows[k].line_idx) + 1]]

\* the rows of st that are expansion placeholders
PlaceholderRows(st) ==
    {k \in 1..Len(content_rows(st)) : RowPayloads(st)[k].kind = "Expansion"}

\* the last action reported the lines fetched for a placeholder of the file shown
ExpansionFulfilled ==
    /\ Acted({"Event"})
    /\ last.action.event.kind = "ExpansionFetched"
    /\ Before.current_file = Some(last.action.event.path)
    /\ PlaceholderRows(Before) # {}

\* C18: when an expansion fetch is fulfilled the placeholder row is gone and the
\* returned rows stand in its place in order, the rows before it are untouched and
\* the rows after it keep their order; afterwards the content cursor, the scroll
\* offset and the ends of the selection are positions of the new sequence.
C18_FulfilmentSplicesRows ==
    ExpansionFulfilled =>
        LET k == CHOOSE i \in PlaceholderRows(Before) :
                    \A j \in PlaceholderRows(Before) : i <= j
            old == RowPayloads(Before)
            new == RowPayloads(Now)
        IN /\ new = SubSeq(old, 1, k - 1) \o last.action.event.lines
                        \o SubSeq(old, k + 1, Len(old))
           /\ ValidIndex(content_cursor(Now), Len(new))
           /\ ValidIndex(scroll_offset, Len(new))
           /\ visual_selection(Now) # None =>
                /\ ValidIndex(Unwrap(visual_selection(Now))[1], Len(new))
                /\ ValidIndex(Unwrap(visual_selection(Now))[2], Len(new))

\* i brought into lo..hi
Clamped(i, lo, hi) == IF i < lo THEN lo ELSE IF i > hi THEN hi ELSE i

\* what C29 says of the scroll offset after a page of delta rows in a content
\* pane of len rows: it moved the same way as the cursor by at most a page, by
\* exactly a page where neither it nor the cursor is clamped, and paging down on
\* the last row with the last rows in view, or up at row 0 with offset 0, changed
\* nothing
ScrollPaged(down, h, delta, len) ==
    LET top == Max(len - h, 0)
    IN /\ down => /\ scroll_offset >= Before.scroll_offset
                  /\ scroll_offset <= Before.scroll_offset + h
       /\ ~down => /\ scroll_offset <= Before.scroll_offset
                   /\ scroll_offset >= Before.scroll_offset - h
       /\ (Before.scroll_offset + delta \in 0..top
               /\ Before.cursor_line + delta \in 0..(len - 1)) =>
             scroll_offset = Before.scroll_offset + delta
       /\ (down /\ Before.cursor_line = len - 1 /\ Before.scroll_offset >= top) =>
             Now = Before
       /\ (~down /\ Before.cursor_line = 0 /\ Before.scroll_offset = 0) =>
             Now = Before

\* the content cursor was inside the window before the last action
InWindowBefore ==
    /\ Before.scroll_offset <= Before.cursor_line
    /\ Before.cursor_line < Before.scroll_offset + Before.viewport_height

ForwardedActions ==
    {[type |-> t] : t \in {"NavigateDown", "NavigateUp", "NavigateLeft", "NavigateRight",
                           "NavigateToTop", "NavigateToBottom", "PageDown", "PageUp",
                           "Toggle", "SwitchPane", "EnterVisualMode", "ExitVisualMode"}
                          \cup (ReviewActions \ {"CommentChar"})}
    \cup {[type |-> "CommentChar", ch |-> ch] : ch \in CommentChars}
    \cup {[type |-> "SetViewport", height |-> h] : h \in 0..MaxHeight}

\* the actions reduce_diff_viewer returns the state for as it took it
InertActions ==
    {[type |-> t] : t \in {"Open", "ExpandAll", "CollapseAll"}}
    \cup {[type |-> "Event", event |-> e] : e \in DiffEvents}

\* C35: while no diff is loaded, every navigation, scrolling, tree, focus,
\* visual-mode, comment, review and viewport action leaves the panel's state as it
\* was; Open, ExpandAll, CollapseAll and Event leave it as it was in every state.
C35_NoEffectWithoutDiff ==
    /\ ~inner => \A a \in ForwardedActions : reduce_diff_viewer(Panel, a) = Panel
    /\ \A a \in InertActions : reduce_diff_viewer(Panel, a) = Panel
    /\ (last.action \in ForwardedActions /\ ~last.before.inner) => Panel = last.before
    /\ last.action \in InertActions => Panel = last.before

\* a viewport of some height was set while no diff was loaded, after a failed load
C35_Witness ==
    /\ last.action.type = "SetViewport"
    /\ last.action.height > 0
    /\ ~last.before.inner
    /\ last.before.load_state = "error"
    /\ ~inner

----------------------------------------------------------------------------
(* Claims about comments and the review (SpecReview) *)

\* the last action was an Event carrying a result of kind
Reported(kind) == Acted({"Event"}) /\ last.action.event.kind = kind

\* C19: the pending comments are emptied only by the report that a review
\* submission succeeded: submit review leaves them as they were, a reported failure
\* leaves them as they were (same comments, same order), and no other action turns
\* a non-empty collection into an empty one.
C19_PendingKeptUntilSuccess ==
    /\ Acted({"SubmitReview"}) => pending_comments = Before.pending_comments
    /\ Reported("ReviewFailed") => pending_comments = Before.pending_comments
    /\ (inner /\ last.before.inner /\ Before.pending_comments # <<>>
            /\ pending_comments = <<>>) => Reported("ReviewSubmitted")

\* the sink reported a failure while two comments on different files were pending
\* and the popup was closed
C19_Witness ==
    /\ Reported("ReviewFailed")
    /\ ~show_review_popup
    /\ Len(pending_comments) = 2
    /\ pending_comments[1].path # pending_comments[2].path
    /\ pending_comments = Before.pending_comments

\* C20: submit review hands exactly one review-submission intent to the
\* collaborator, holding every pending comment (path, line, body) in order and the
\* review event chosen in the popup.
C20_SubmitEmitsOneIntent ==
    Acted({"SubmitReview"}) =>
        last.events = <<[kind |-> "SubmitReview",
                         comments |-> Before.pending_comments,
                         event |-> Before.selected_review_event]>>

\* C22: commit comment with an open draft appends exactly one pending comment,
\* the draft's path, line and text, to the end of the pending collection, leaves the
\* earlier pending comments as they were and in order, and closes the draft.
C22_CommitAppendsDraft ==
    (Acted({"CommitComment"}) /\ Before.comment_editor # None) =>
        /\ Len(pending_comments) = Len(Before.pending_comments) + 1
        /\ SubSeq(pending_comments, 1, Len(Before.pending_comments))
                = Before.pending_comments
        /\ LET draft == Unwrap(Before.comment_editor)
               added == pending_comments[Len(pending_comments)]
           IN /\ added.path = draft.path
              /\ added.line = draft.line
              /\ added.body = draft.body
        /\ comment_editor = None

\* a draft with text was committed after a comment of another file
C22_Witness ==
    /\ Acted({"CommitComment"})
    /\ Before.comment_editor # None
    /\ Unwrap(Before.comment_editor).body # <<>>
    /\ Len(Before.pending_comments) = 1
    /\ Before.pending_comments[1].path # Unwrap(Before.comment_editor).path
    /\ Len(pending_comments) = 2

\* C23: cancel comment closes the draft, and the pending comments are what they
\* were before the draft was opened whatever was typed: opening the draft, typing
\* into it, deleting from it and cancelling it each leave them as they were.
C23_CancelKeepsPending ==
    /\ Acted({"CancelComment"}) => comment_editor = None
    /\ Acted({"AddComment", "CommentChar", "CommentBackspace", "CancelComment"}) =>
            pending_comments = Before.pending_comments

\* a draft with text was cancelled while a comment was pending
C23_Witness ==
    /\ Acted({"CancelComment"})
    /\ Before.comment_editor # None
    /\ Unwrap(Before.comment_editor).body # <<>>
    /\ Before.pending_comments # <<>>
    /\ comment_editor = None
    /\ pending_comments = Before.pending_comments

----------------------------------------------------------------------------
(* Claims about comments on lines (SpecComment) *)

\* the row under the content cursor of st is a line that has a line number
CursorOnNumberedLine(st) ==
    /\ content_cursor(st) < Len(content_rows(st))
    /\ LET row == RowPayloads(st)[content_cursor(st) + 1]
       IN row.kind \in {"Context", "Addition", "Deletion"}

\* the new line number of a row if it has one, else the old one
NewElseOld(row) ==
    IF row.new_line # None THEN Unwrap(row.new_line) ELSE Unwrap(row.old_line)

\* C21: start comment with no file selected changes nothing of the panel's state;
\* with a file selected it opens an empty draft bound to that file's path and, on a
\* numbered line, to the new line number of the row under the content cursor if
\* it has one, else to its old line number.
C21_StartComment ==
    Acted({"AddComment"}) =>
        /\ Before.current_file = None => Panel = last.before
        /\ Before.current_file # None =>
              /\ comment_editor # None
              /\ Unwrap(comment_editor).path = Unwrap(Before.current_file)
              /\ Unwrap(comment_editor).body = <<>>
              /\ CursorOnNumberedLine(Before) =>
                    Unwrap(comment_editor).line =
                        NewElseOld(RowPayloads(Before)[content_cursor(Before) + 1])

\* a draft was opened on a line whose old and new line numbers differ
C21_Witness ==
    /\ Acted({"AddComment"})
    /\ CursorOnNumberedLine(Before)
    /\ LET row == RowPayloads(Before)[content_cursor(Before) + 1]
       IN row.old_line # None /\ row.new_line # None /\ row.old_line # row.new_line
    /\ comment_editor # None

\* C24: a committed pending comment stays in the pending collection, unchanged and
\* at its place, across every later action (file switches, tree toggles, focus
\* switches, cursor moves, cancelled drafts among them) other than the report of a
\* successful review submission.
C24_PendingSurvives ==
    (inner /\ last.before.inner /\ ~Reported("ReviewSubmitted")) =>
        /\ Len(pending_comments) >= Len(Before.pending_comments)
        /\ SubSeq(pending_comments, 1, Len(Before.pending_comments))
                = Before.pending_comments

\* the file shown changed while a comment on the file shown before was pending
C24_Witness ==
    /\ Acted({"NavigateDown", "NavigateUp"})
    /\ Before.current_file # None
    /\ current_file # Before.current_file
    /\ Before.pending_comments # <<>>
    /\ Some(Before.pending_comments[1].path) = Before.current_file
    /\ pending_comments = Before.pending_comments

\* the line number the content pane compares comments with: the new line number
\* of a row if it has one, else the old one, else (a placeholder) 0
RowNumber(row) ==
    IF row.new_line # None THEN Unwrap(row.new_line)
    ELSE IF row.old_line # None THEN Unwrap(row.old_line)
    ELSE 0

\* some pending comment of the file shown is on line n
CommentedHere(n) ==
    \E i \in 1..Len(pending_comments) :
        /\ Some(pending_comments[i].path) = current_file
        /\ pending_comments[i].line = n

SomeCollapsed(tree) ==
    \E p \in Nodes(tree) :
        NodeAt(tree, p).path = None /\ ~NodeAt(tree, p).expanded

\* C26: a load error is recorded as the visible state "error" and changes nothing
\* of the viewer: whether a diff is loaded, the pane focus, both cursors, the scroll
\* offset, the visual selection, the tree with its expand flags, the draft and the
\* pending comments are after LoadError what they were before it.
C26_LoadErrorKeepsNavigation ==
    last.action.type = "LoadError" =>
        /\ load_state = "error"
        /\ inner = last.before.inner
        /\ Now = Before
        /\ tree_cursor(Now) = tree_cursor(Before)
        /\ content_cursor(Now) = content_cursor(Before)
        /\ visual_selection(Now) = visual_selection(Before)

\* a load error while the content pane was focused with its cursor off the first
\* row, a selection was active, a directory was collapsed and a comment was pending
C26_Witness ==
    /\ Acted({"LoadError"})
    /\ last.before.load_state = "loaded"
    /\ ~file_tree_focused
    /\ cursor_line > 0
    /\ visual_anchor # None
    /\ SomeCollapsed(file_tree)
    /\ pending_comments # <<>>
    /\ load_state = "error"

----------------------------------------------------------------------------
(* Claims about the dispatcher queue (SpecQueue) *)

\* C27: actions are applied one at a time, in the order they were put on the
\* queue: the actions applied so far, the one in flight and the ones still queued
\* are together exactly the actions put on the queue, in that order (none skipped,
\* duplicated or reordered, also after a drain that stopped with actions queued),
\* and an action is in flight only between its pop and the end of its dispatch.
C27_QueueIsFifo ==
    /\ last.enqueued = last.applied \o in_flight \o queue
    /\ \A i \in 1..Len(last.enqueued) : last.enqueued[i].id = i
    /\ Len(in_flight) <= 1
    /\ in_flight # None <=> pc = "dispatch"

\* an action was applied after a drain had stopped early with actions queued; the
\* actions applied came from the main loop, a middleware and a background task
C27_Witness ==
    /\ last.action = "StoreDispatch"
    /\ last.stopped_early
    /\ running
    /\ Len(last.applied) >= 3
    /\ {last.applied[i].src : i \in 1..Len(last.applied)}
            = {"main", "middleware", "background"}

----------------------------------------------------------------------------
(* Claims about the file tree (SpecTree) *)

\* the expand flags that differ between the tree before the last action and now
ChangedFlags ==
    {p \in Nodes(last.before) :
        NodeAt(last.before, p).expanded # NodeAt(file_tree, p).expanded}

\* the full paths of the files of a tree
FilePathsOf(tree) ==
    {Unwrap(NodeAt(tree, p).path) : p \in {q \in Nodes(tree) : ~is_directory(NodeAt(tree, q))}}

\* C7: toggle_at_path(path) flips the expand flag of exactly the directory whose
\* full path from the root is path, and of no other node (a/x is not x).
C7_ToggleAtPathFullPath ==
    last.action = "toggle_at_path" =>
        ChangedFlags = {p \in Nodes(last.before) :
                            /\ is_directory(NodeAt(last.before, p))
                            /\ FullPath(last.before, p) = last.target}

\* C8: a toggle of a file node, and toggle_at_path given the full path of a file of
\* the tree, change no expand flag anywhere, and toggle_at_path reports false.
C8_FileToggleRefused ==
    /\ (last.action = "toggle_at_path" /\ last.target \in FilePathsOf(last.before)) =>
            (~last.ok /\ file_tree = last.before)
    /\ (last.action = "toggle"
            /\ ~flatten(last.before)[last.row].is_dir) => file_tree = last.before

RECURSIVE RowsOutside(_, _, _, _)
\* the rows F[i..] whose node is not strictly below d, the row of d itself collapsed
RowsOutside(F, N, d, i) ==
    IF i > Len(F) THEN <<>>
    ELSE IF IsStrictPrefix(d, N[i]) THEN RowsOutside(F, N, d, i + 1)
    ELSE <<IF N[i] = d THEN [F[i] EXCEPT !.is_expanded = FALSE] ELSE F[i]>>
            \o RowsOutside(F, N, d, i + 1)

\* the last action collapsed the expanded directory behind a visible row
CollapsedARow ==
    /\ last.action = "toggle"
    /\ flatten(last.before)[last.row].is_dir
    /\ flatten(last.before)[last.row].is_expanded

\* C9: collapsing a visible expanded directory d removes from flatten() exactly the
\* rows of d's descendants, keeps every other row in order (d's row with its flag
\* cleared), and toggling d again gives back the flatten() of before.
C9_CollapseRemovesDescendants ==
    CollapsedARow =>
        LET F == flatten(last.before)
            N == RowNodes(last.before, <<>>)
        IN /\ Len(N) = Len(F)
           /\ flatten(file_tree) = RowsOutside(F, N, N[last.row], 1)
           /\ flatten(ApplyAt(file_tree, N[last.row])) = F

\* a collapse that removed rows from the middle of the flattened tree
C9_Witness ==
    /\ CollapsedARow
    /\ Len(flatten(file_tree)) < Len(flatten(last.before))
    /\ last.row > 1
    /\ last.row < Len(flatten(file_tree))

\* within node's children every directory precedes every file and each group is in
\* ascending order of name
ChildrenInOrder(node) ==
    \A i, j \in 1..Len(node.children) :
        i < j =>
            LET a == node.children[i]
                b == node.children[j]
            IN /\ ~(a.path # None /\ b.path = None)
               /\ ((a.path = None) = (b.path = None)) => ~StrLess(b.name, a.name)

\* C10: in the tree from_files builds, the children of every directory (the root
\* included) are directories first, then files, each group ascending by name.
C10_BuiltTreeSorted ==
    LET tree == from_files(files)
    IN \A p \in AllNodes(tree, <<>>) : ChildrenInOrder(NodeAt(tree, p))

\* a file list whose insertion order is not the sorted order, below the root too
C10_Witness ==
    LET unsorted == InsertAll(directory(<<>>), files, 1)
    IN /\ last.action = "init"
       /\ ~ChildrenInOrder(unsorted)
       /\ \E p \in Nodes(unsorted) : ~ChildrenInOrder(NodeAt(unsorted, p))
       /\ file_tree = from_files(files)
       /\ \E p \in AllNodes(file_tree, <<>>) :
            \E i, j \in 1..Len(NodeAt(file_tree, p).children) :
                /\ NodeAt(file_tree, p).children[i].path = None
                /\ NodeAt(file_tree, p).children[j].path # None

\* C28: in every tree reached by build and toggle each node is either a file or a
\* directory: a node with a path has no children (also when another file's path
\* passes through a segment of the same name), and a node with children has no
\* path.
C28_FileOrDirectory ==
    \A p \in AllNodes(file_tree, <<>>) :
        LET node == NodeAt(file_tree, p)
        IN /\ node.path # None => node.children = <<>>
           /\ node.children # <<>> => node.path = None

\* a file and a directory of the same name are siblings, the directory holds a
\* file, and a directory has been toggled
C28_Witness ==
    /\ last.action \in {"toggle", "toggle_at_path"}
    /\ \E p, q \in AllNodes(file_tree, <<>>) :
          /\ Len(p) = Len(q) /\ p # q
          /\ SubSeq(p, 1, Len(p) - 1) = SubSeq(q, 1, Len(q) - 1)
          /\ NodeAt(file_tree, p).name = NodeAt(file_tree, q).name
          /\ NodeAt(file_tree, p).path # None
          /\ NodeAt(file_tree, q).children # <<>>

----------------------------------------------------------------------------
(* Claims about building a tree (SpecBuild) *)

\* C11: the recursive sort is idempotent: a tree that sort_recursive has produced
\* is, at every node, in the child order that sort_recursive gives it again.
C11_SortIdempotent ==
    last.action = "sort_recursive" => sort_recursive(file_tree) = file_tree

\* a second sort, of a tree whose order below the root the first sort had changed
C11_Witness ==
    /\ last.action = "sort_recursive"
    /\ last.before = file_tree
    /\ \E p \in Nodes(file_tree) :
          /\ Len(NodeAt(file_tree, p).children) >= 2
          /\ \E q \in Nodes(InsertAll(directory(<<>>), files, 1)) :
                /\ FullPath(InsertAll(directory(<<>>), files, 1), q) = FullPath(file_tree, p)
                /\ ~ChildrenInOrder(NodeAt(InsertAll(directory(<<>>), files, 1), q))

\* the positions of the files at or below position p
FilesBelow(tree, p) ==
    {q \in AllNodes(tree, <<>>) : IsPrefix(p, q) /\ ~is_directory(NodeAt(tree, q))}

RECURSIVE SumAt(_, _, _)
\* the sum of additions (field "add") or deletions over the nodes at positions S
SumAt(tree, S, field) ==
    IF S = {} THEN 0
    ELSE LET q == CHOOSE x \in S : TRUE
         IN (IF field = "add" THEN NodeAt(tree, q).additions ELSE NodeAt(tree, q).deletions)
            + SumAt(tree, S \ {q}, field)

\* C14: after calculate_stats every directory's additions (deletions) are the sum
\* of the additions (deletions) of the files in its subtree, every file's counts
\* are its own as before, and nothing else about the tree has changed.
C14_DirectoryStatsAreSums ==
    last.action = "calculate_stats" =>
        /\ AllNodes(file_tree, <<>>) = AllNodes(last.before, <<>>)
        /\ \A p \in AllNodes(file_tree, <<>>) :
              LET now == NodeAt(file_tree, p)
                  was == NodeAt(last.before, p)
              IN /\ now.additions = SumAt(last.before, FilesBelow(last.before, p), "add")
                 /\ now.deletions = SumAt(last.before, FilesBelow(last.before, p), "del")
                 /\ ~is_directory(was) => now = was
                 /\ [now EXCEPT !.additions = 0, !.deletions = 0, !.children = <<>>]
                      = [was EXCEPT !.additions = 0, !.deletions = 0, !.children = <<>>]
        /\ calculate_stats(last.before).add = SumAt(last.before, FilesBelow(last.before, <<>>), "add")
        /\ calculate_stats(last.before).del = SumAt(last.before, FilesBelow(last.before, <<>>), "del")

\* a directory below the root that got the sum of a file of its own and of a file
\* in a directory below it
C14_Witness ==
    /\ last.action = "calculate_stats"
    /\ \E p \in Nodes(file_tree) :
          /\ is_directory(NodeAt(file_tree, p))
          /\ \E q \in FilesBelow(file_tree, p) : Len(q) = Len(p) + 1 /\ NodeAt(file_tree, q).additions + NodeAt(file_tree, q).deletions > 0
          /\ \E q \in FilesBelow(file_tree, p) : Len(q) > Len(p) + 1 /\ NodeAt(file_tree, q).additions > 0
          /\ NodeAt(file_tree, p).additions > 0
          /\ NodeAt(file_tree, p).deletions > 0
          /\ NodeAt(last.before, p).additions = 0

RECURSIVE PreOrder(_, _)
\* the positions below the node at position p in depth-first pre-order: each child,
\* then that child's subtree, child after child
PreOrder(node, p) ==
    LET RECURSIVE kids(_)
        kids(i) == IF i > Len(node.children) THEN <<>>
                   ELSE <<Append(p, i)>> \o PreOrder(node.children[i], Append(p, i))
                        \o kids(i + 1)
    IN kids(1)

\* row is the row of the node n
RowOf(row, n) ==
    /\ row.name = n.name
    /\ row.path = n.path
    /\ row.is_dir = is_directory(n)
    /\ row.is_expanded = n.expanded

\* rows lists the nodes of tree at positions, one row each, in that order
ListsNodes(rows, tree, positions) ==
    /\ Len(rows) = Len(positions)
    /\ \A i \in 1..Len(positions) : i <= Len(rows) => RowOf(rows[i], NodeAt(tree, positions[i]))

\* the names of rows, in order
RowNames(rows) == [i \in 1..Len(rows) |-> rows[i].name]

\* C12: flatten() of the freshly built, fully expanded tree lists the sorted tree
\* in depth-first pre-order, one row per directory and per file, each directory's
\* row followed at once by its subtree's; for src/main.rs, src/lib.rs,
\* tests/test.rs, Cargo.toml these are src, lib.rs, main.rs, tests, test.rs,
\* Cargo.toml.
C12_FlattenIsPreOrder ==
    last.action = "sort_recursive" =>
        /\ ListsNodes(flatten(file_tree), file_tree, PreOrder(file_tree, <<>>))
        /\ Len(flatten(file_tree)) = Cardinality(Nodes(file_tree))
        /\ files = ExampleFiles =>
              /\ RowNames(flatten(file_tree)) =
                    << <<"s", "r", "c">>, <<"l", "i", "b", ".", "r", "s">>,
                       <<"m", "a", "i", "n", ".", "r", "s">>, <<"t", "e", "s", "t", "s">>,
                       <<"t", "e", "s", "t", ".", "r", "s">>,
                       <<"C", "a", "r", "g", "o", ".", "t", "o", "m", "l">> >>
              /\ [i \in 1..6 |-> flatten(file_tree)[i].is_dir] =
                    <<TRUE, FALSE, FALSE, TRUE, FALSE, FALSE>>

\* C33: for files with distinct paths, file_paths() of the freshly built, fully
\* expanded tree is a permutation of the files' paths: every file has exactly one
\* row, also when a path has an empty segment.
C33_EveryFileOnce ==
    last.action = "sort_recursive" =>
        /\ Len(file_paths(file_tree)) = Len(files)
        /\ {file_paths(file_tree)[i] : i \in 1..Len(file_paths(file_tree))}
                = {files[i].path : i \in 1..Len(files)}

----------------------------------------------------------------------------
(* Claims about flatten under every combination of expand flags (SpecTree) *)

RECURSIVE KeepShown(_, _, _)
\* of positions[i..], those whose node has every directory strictly between the
\* root and itself expanded
KeepShown(tree, positions, i) ==
    IF i > Len(positions) THEN <<>>
    ELSE (IF \A k \in 1..(Len(positions[i]) - 1) :
                NodeAt(tree, SubSeq(positions[i], 1, k)).expanded
          THEN <<positions[i]>> ELSE <<>>)
         \o KeepShown(tree, positions, i + 1)

\* C13: whatever the expand flags, flatten() has no row for the root and has a row
\* for a node below the root exactly if every directory strictly between the root
\* and the node is expanded; the rows are in pre-order.
C13_RowIffAncestorsExpanded ==
    ListsNodes(flatten(file_tree), file_tree,
               KeepShown(file_tree, PreOrder(file_tree, <<>>), 1))

\* C34: the depth of a row of flatten() is the nesting level of its node: the
\* number of directories strictly between the root and the node, 0 for the
\* entries of the top level.
C34_DepthIsNesting ==
    \A i \in 1..Len(flatten(file_tree)) :
        flatten(file_tree)[i].depth = Len(RowNodes(file_tree, <<>>)[i]) - 1

----------------------------------------------------------------------------
(* Claims about the hunk/line flattening (SpecHunks) *)

\* the lines of all hunks together
TotalLines(hunks) == HeaderOffset(hunks, Len(hunks)) - Len(hunks)

\* C15: for every list of hunks the flattening is, hunk after hunk, one header row
\* (hunk i, no line) and then one row (hunk i, line j) per line in stored order;
\* its length is hunks + lines, expansion placeholders have their row, and no two
\* offsets denote the same header or line.
C15_HunkFlattening ==
    last.action = "flatten_hunk_info" =>
        LET hunks == files[1].hunks
            rows == last.rows
        IN /\ Len(rows) = Len(hunks) + TotalLines(hunks)
           /\ IsFlatteningOf(rows, hunks)
           /\ \A i, j \in 1..Len(rows) : i # j => rows[i] # rows[j]
           /\ \A i \in 1..Len(rows) :
                /\ rows[i].hunk_idx \in 0..(Len(hunks) - 1)
                /\ rows[i].line_idx # None =>
                      Unwrap(rows[i].line_idx) \in 0..(Len(hunks[rows[i].hunk_idx + 1].lines) - 1)
           /\ \A h \in 1..Len(hunks) : \A k \in 1..Len(hunks[h].lines) :
                \E i \in 1..Len(rows) : rows[i] = [hunk_idx |-> h - 1, line_idx |-> Some(k - 1)]

\* three hunks flattened: the 3-line hunk as its 4 rows, then one with an expansion
\* placeholder, then more rows after it
C15_Witness ==
    /\ last.action = "flatten_hunk_info"
    /\ Len(files[1].hunks) = 3
    /\ files[1].hunks[1] = SampleHunk
    /\ SubSeq(last.rows, 1, 4) =
          <<[hunk_idx |-> 0, line_idx |-> None], [hunk_idx |-> 0, line_idx |-> Some(0)],
            [hunk_idx |-> 0, line_idx |-> Some(1)], [hunk_idx |-> 0, line_idx |-> Some(2)]>>
    /\ files[1].hunks[2] = OtherHunk
    /\ Len(last.rows) > 7

----------------------------------------------------------------------------
(* Claims about the view stack (SpecViews) *)

\* C31: the view stack is never empty, whatever view actions are applied to it:
\* closing the last view leaves it on the stack and stops the application, and
\* pushing a view equal to the top never removes the only view.
C31_ViewStackNeverEmpty ==
    /\ view_stack # <<>>
    /\ (last.action.type = "GlobalClose" /\ Len(last.before.view_stack) = 1) =>
            (view_stack = last.before.view_stack /\ ~running)
    /\ (last.action.type = "PushView" /\ Len(last.before.view_stack) = 1) =>
            view_stack # <<>>

\* C36: GlobalActivateView with a floating view pushes it, unless the top view has
\* its id already, when the stack stays; with a non-floating view the stack becomes
\* that view alone.
C36_ActivateView ==
    last.action.type = "GlobalActivateView" =>
        /\ running = last.before.running
        /\ IF last.action.view.floating
           THEN IF /\ last.before.view_stack # <<>>
                   /\ last.before.view_stack[Len(last.before.view_stack)].id
                        = last.action.view.id
                THEN view_stack = last.before.view_stack
                ELSE view_stack = Append(last.before.view_stack, last.action.view)
           ELSE view_stack = <<last.action.view>>

\* a floating view was activated on a stack that holds it below another floating
\* view, and was pushed again
C36_Witness ==
    /\ last.action.type = "GlobalActivateView"
    /\ last.action.view.floating
    /\ Len(last.before.view_stack) = 2
    /\ last.before.view_stack[1].id = last.action.view.id
    /\ last.before.view_stack[2].id # last.action.view.id
    /\ Len(view_stack) = 3

\* C37: GlobalClose takes the top view off a stack of more than one view and the
\* application keeps running; on a stack of exactly one view it leaves the stack
\* and stops the application.
C37_GlobalClose ==
    last.action.type = "GlobalClose" =>
        /\ Len(last.before.view_stack) > 1 =>
              /\ view_stack = SubSeq(last.before.view_stack, 1,
                                     Len(last.before.view_stack) - 1)
              /\ running = last.before.running
        /\ Len(last.before.view_stack) = 1 =>
              /\ view_stack = last.before.view_stack
              /\ ~running

\* the last view was asked to close after a view above it had been closed
C37_Witness ==
    /\ last.action.type = "GlobalClose"
    /\ Len(last.before.view_stack) = 1
    /\ last.before.running
    /\ last.before.view_stack[1].id = "Main"
    /\ ~running

----------------------------------------------------------------------------
(* Claims about the loads started for added repositories (SpecLoad) *)

----------------------------------------------------------------------------
(* Claims about the tick thread (SpecTick, SpecTickLive) *)

\* C39: at most one tick thread is alive at any time, whatever the sequence of
\* Start and End and however the threads interleave with the middleware.
C39_OneTickThread ==
    Cardinality(Alive) <= 1

\* C38: after End has been handled, unless Start is handled again, every tick
\* thread eventually leaves its loop; a thread that has left its loop stays out of
\* it and dispatches no Tick any more.
C38_EndStopsTicks ==
    /\ (~tick_thread_started) ~> (tick_thread_started \/ Alive = {})
    /\ [][\A t \in 1..Len(tick_threads) :
            tick_threads[t] = "done" =>
                /\ tick_threads'[t] = "done"
                /\ ~(last'.action = "tick" /\ last'.thread = t)]_vars

\* a thread that dispatched a Tick has left its loop after End, and its Tick is
\* still waiting
C38_Witness ==
    /\ ~tick_thread_started
    /\ tick_threads # <<>>
    /\ Alive = {}
    /\ last.action = "check"
    /\ \E i \in 1..Len(queue) : queue[i].thread = last.thread

----------------------------------------------------------------------------
(* Claims about the pull request operations (SpecGitHub) *)

\* the places in the history where an action of the given types for task t stands
Places(types, t) ==
    {i \in 1..Len(last.enqueued) :
        last.enqueued[i].type \in types /\ last.enqueued[i].task = t}

\* C40: for every target of a merge, rebase, approve or close request the Start
\* action is dispatched before that target's Success or Error, and once the call
\* has come back exactly one of Success and Error has been dispatched for it, none
\* before; whatever the interleaving of the tasks.
C40_StartThenOneResult ==
    /\ \A i \in 1..Len(last.enqueued) :
          last.enqueued[i].type \in {"Success", "Error"} =>
              \E j \in 1..(i - 1) :
                  /\ last.enqueued[j].type = "Start"
                  /\ last.enqueued[j].task = last.enqueued[i].task
                  /\ last.enqueued[j].kind = last.enqueued[i].kind
                  /\ last.enqueued[j].pr = last.enqueued[i].pr
    /\ \A t \in 1..Len(tasks) :
          /\ Cardinality(Places({"Success", "Error"}, t))
                = (IF tasks[t].state = "done" THEN 1 ELSE 0)
          /\ Cardinality(Places({"Start"}, t)) <= 1

\* two targets of one request: the call of the second came back first, with a
\* success, the call of the first failed
C40_Witness ==
    /\ Len(tasks) = 2
    /\ tasks[1].state = "done"
    /\ tasks[2].state = "done"
    /\ tasks[1].kind = tasks[2].kind
    /\ \E i \in Places({"Success"}, 2), j \in Places({"Error"}, 1) : i < j

====
